---- MODULE Spec2Model ----
(***************************************************************************)
(* Verification model of the ATC reinforcement-learning environment       *)
(* (separation geometry, reward engine, SyntheticTowerEnv), the           *)
(* DecisionTracker ring buffer and the EventBus publish/subscribe hub.    *)
(*                                                                         *)
(* Numeric conventions: horizontal distances are fixed-point hundredths   *)
(* of a nautical mile (Hypot floors 100*sqrt), altitudes are feet, and    *)
(* rewards are fixed-point in units of 1/10000.                           *)
(***************************************************************************)
EXTENDS Integers, Sequences, FiniteSets, TLC

VARIABLES
    \* ---- separation geometry (pure function harness) ----
    sepIn,          \* the aircraft list handed to pairwise_min_separation_nm
    sepOut,         \* its result <<min_sep, los_count>>, or <<>> before the call
    \* ---- reward engine (pure function harness) ----
    rwIn,           \* [prev, cur, min_sep, los] handed to compute_reward
    rwOut,          \* its result [r, comps], or NoResult before the call
    \* ---- SyntheticTowerEnv ----
    last_states,    \* env._last_states (NoStates before the first reset)
    step_count,     \* env._step_count
    alive_mask,     \* env._alive_mask, as the sequence of 0/1 of the live slots
    stepRet,        \* what the last reset/step call returned (or raised)
    \* ---- DecisionTracker ----
    decisions,      \* tracker._decisions, the deque of records, oldest first
    decision_count, \* tracker._decision_count
    trk_now,        \* the millisecond clock read by log_decision
    trk_logged,     \* history: the ids of the records created, in creation order
    trk_reset,      \* history: clear_history or load_from_file has been called
    trk_calls,      \* history: log_decision calls and handled events so far
    max_decisions,  \* tracker.max_decisions, the deque's maxlen
    trk_subscribed, \* tracker._subscription_id is set
    trk_last,       \* history: the last tracker operation and its payload kind
    \* ---- SafetyAnalyzer ----
    sa_hist,        \* the records held by the analyzer's decision tracker, oldest first
    violations,     \* analyzer._violations, oldest first
    violation_count, \* analyzer._violation_count
    sa_out,         \* what the last direct analyze_violation call returned
    sa_event,       \* history: the payload kind of the last event handled
    sa_calls,       \* history: the events handled so far
    \* ---- IntegratedVisualizationSystem ----
    max_decision_history, \* system.max_decision_history
    sys_initialized, \* system._initialized
    sys_enabled,    \* the enable_* flags that are set
    sys_comp,       \* per component, whether the system's reference is not None
    sys_wired,      \* the handlers subscribed by _wire_components, in order
    sys_globals,    \* the global singletons that exist (tracker, safety, monitor)
    sys_sa_subscribed, \* the global safety analyzer's _subscription_id is set
    sys_persisted,  \* history: runs of the monitor's _persist_metrics
    sys_ret,        \* history: the last initialize / shutdown call and how it ended
    sys_calls,      \* history: initialize / shutdown calls so far
    \* ---- the subscribers of the analysis pipeline ----
    pipe_queue,     \* the executor's _safe_callback work items, oldest first
    pipe_count,     \* history: the events published so far
    pipe_publish,   \* history: how the last publish call ended
    pipe_last,      \* history: the last work item run and how its handler ended
    pipe_escaped,   \* history: the subscribers whose handler let an exception out
    \* ---- PatternAnalyzer ----
    pat_patterns,   \* analyzer._patterns, oldest first
    pattern_count,  \* analyzer._pattern_count
    pat_ret,        \* history: the last detection call and what it returned
    pat_detected,   \* history: the patterns detected so far and the call that found them
    pat_calls,      \* history: detection calls so far
    \* ---- SafetyAnalyzer, safety metrics ----
    met_violations, \* analyzer._violations as [severity, timestamp], oldest first
    met_out,        \* what the last calculate_safety_metrics call was given and returned
    \* ---- ReportGenerator ----
    rep_report,     \* the report returned by the last generate_* call
    rep_alerts,     \* generator._alerts, oldest first
    rep_ret,        \* what the last acknowledge_alert / resolve_alert call returned
    \* ---- the daily report scheduler (monitoring.ReportGenerator) ----
    scheduler_active, \* generator._scheduler_active
    shutdown_event, \* generator._shutdown_event is set
    scheduler_thread, \* generator._scheduler_thread, 0 for None
    sched_pc,       \* where the calling thread stands inside stop_scheduler
    loop_pc,        \* per scheduler thread, where it stands inside scheduler_loop
    loops_started,  \* history: scheduler threads started so far
    loop_stopped,   \* history: the threads stop_scheduler was called for
    loop_late,      \* history: stopped threads that began a report after their stop
    sched_reports,  \* history: scheduled reports generated so far
    \* ---- EventPublishingEnvWrapper ----
    wrp_queue,      \* the safety-violation events published and not yet handled
    wrp_handled,    \* history: the events handled by the analyzer, and whether stored
    wrp_stored,     \* the violations the analyzer stored for the wrapper's events
    wrp_steps,      \* history: step calls so far
    \* ---- the EventBus executor's worker threads ----
    pool_registry,  \* the subscription ids of bus._subscribers, in registration order
    pool_used,      \* history: the subscription ids handed out so far
    pool_queue,     \* the executor's work queue of _safe_callback items, oldest first
    pool_run,       \* per worker thread, the work item it holds and how far it got
    pool_received,  \* per subscriber, the events its callback completed, in order
    pool_stamps,    \* the millisecond timestamps of the events published, in order
    pool_gone,      \* history: the ids for which unsubscribe has returned True
    pool_ret,       \* history: the last unsubscribe call and what it returned
    pool_late,      \* history: callbacks invoked after their unsubscribe returned True
    pool_violation_count, \* the analyzer's _violation_count
    pool_violation_ids,   \* the ids of the analyzer's _violations, oldest first
    \* ---- a second caller of the EventBus ----
    closer_pc,      \* where the thread that calls shutdown stands inside it
    \* ---- EventBus ----
    running,        \* bus._running
    exec_shutdown,  \* the executor refuses new work (executor.shutdown was called)
    subscribers,    \* the registered subscription ids, in insertion order
    filters,        \* the registered filter ids, in insertion order
    event_history,  \* bus._event_history, oldest first
    rate_counter,   \* bus._rate_counter
    rate_window,    \* the ordinal of the window that began at bus._rate_window_start
    window_over,    \* time.time() - bus._rate_window_start >= 1.0
    queue,          \* the executor's work queue, oldest first
    pc,             \* where each thread stands inside publish / shutdown
    cur_ev,         \* the event each thread is publishing (0: none)
    rc,             \* the counter value each thread read in _check_rate_limit
    cb_calls,       \* per subscription, the events its callback was invoked with
    ev_log,         \* history: per event, how it was published and what became of it
    sub_used,       \* history: the subscription ids handed out so far
    shutdowns       \* history: the number of shutdown calls that returned

None == <<>>

NoResult == [kind |-> "none"]

\* env._last_states: None until the first reset, then the simulator's list
NoStates == [none |-> TRUE, list |-> <<>>]

SomeStates(l) == [none |-> FALSE, list |-> l]

\* ------------------------------------------------------------------ bounds
MaxAc == 3              \* aircraft in a modelled scenario
RwAc == 2               \* aircraft in a reward-engine input list
SymAc == 3              \* aircraft in a list handed over in every order
MaxLos == 3             \* largest los_count handed to compute_reward directly
Horizon == 3            \* the env's configured horizon (400 by default)
MaxSteps == 4           \* step calls explored per run
MaxDecisions == 2       \* the tracker's max_decisions (100 by default)
MaxLogged == 4          \* log_decision calls and events explored per run
MaxFile == 3            \* records in a file handed to load_from_file
MaxTrkTime == 1         \* milliseconds the tracker's clock may advance
MaxSaHist == 4          \* decisions in the tracker when a violation is analysed
MaxLifeHist == 2        \* decisions in the tracker when stored violations are revisited
MaxMetLen == 2          \* stored violations of mixed severity when metrics are taken
MaxUniform == 50        \* stored violations of one severity when metrics are taken
MaxTick == 3            \* latest timestamp and window edge, in ticks
MaxPatterns == 2        \* behavior patterns handed to a report
MaxAnomalies == 2       \* anomalies handed to a performance analysis
MaxAlerts == 2          \* alerts stored when one is acknowledged or resolved
MaxLoops == 2           \* scheduler threads started per run
MaxSchedReports == 2    \* scheduled reports generated per run
MaxWrapSep == 6         \* largest min_sep_nm reported to the wrapper, in NM
MaxWrapLos == 1         \* largest los count reported to the wrapper
MaxWrapSteps == 3       \* wrapper steps per run
MaxViolations == 2      \* safety-violation events explored per run
PatCapacity == 2        \* the pattern history's maxlen (500 in the code)
MaxDetect == 2          \* patterns one detection call may find
MaxPatCalls == 3        \* detection calls per run
MaxSysCalls == 3        \* initialize / shutdown calls per run
MaxPipeEvents == 2      \* events published to the pipeline's subscribers per run
MaxEvents == 2          \* publish / publish_async calls explored per run
RateLimit == 1          \* the bus's rate_limit_per_second (1000 by default)
MaxHistory == 1         \* the bus's max_history (1000 by default)
MaxShutdowns == 2       \* shutdown calls explored per run
MaxPoolEvents == 4      \* events published to the executor's subscribers per run
MaxPoolStamp == 1       \* milliseconds the publisher's clock may advance

\* ------------------------------------------------------- program constants
MAX_AC == 16
SEP_NM == 500
NEAR_NM == 600
SEP_FT == 1000
MinSepInit == 1000000000
MinSepNone == 99900
TerminalRange == 500
TerminalBonus == 50000
LosPenalty == 100000
NearPenalty == 20000
CatastrophePenalty == 100000
CatastropheLos == 2
ClipLow == 0 - 200000
ClipHigh == 50000
DefaultMaxDecisions == 100
DefaultMaxDecisionHistory == 100
ViolationsMaxLen == 1000
RecentDecisions == 10
BaseScore == 100
CriticalPenalty == 20
HighPenalty == 10
MediumPenalty == 5
LowPenalty == 2
max_workers == 4

\* ------------------------------------------------------------- arithmetic
Abs(a) == IF a < 0 THEN 0 - a ELSE a

Min2(a, b) == IF a < b THEN a ELSE b

Max2(a, b) == IF a > b THEN a ELSE b

RECURSIVE ISqrtBS(_, _, _)
ISqrtBS(n, lo, hi) ==
    IF lo >= hi THEN lo
    ELSE LET mid == (lo + hi + 1) \div 2
         IN  IF mid * mid <= n THEN ISqrtBS(n, mid, hi) ELSE ISqrtBS(n, lo, mid - 1)

\* np.hypot on whole-NM coordinates, result in hundredths of a NM
Hypot(dx, dy) == ISqrtBS(10000 * (dx * dx + dy * dy), 0, 100 * (Abs(dx) + Abs(dy)))

\* q[-n:] for 0 < n <= len(q)
LastN(q, n) == SubSeq(q, Len(q) - n + 1, Len(q))

RECURSIVE SumSeq(_)
SumSeq(s) == IF s = <<>> THEN 0 ELSE Head(s) + SumSeq(Tail(s))

\* ----------------------------------------------------- separation geometry
\* all (i, j) with i < j, in the order of the two nested loops
PairsOf(n) == {p \in (1..n) \X (1..n) : p[1] < p[2]}

LivePair(states, p) == states[p[1]].alive /\ states[p[2]].alive

PairDnm(states, p) ==
    Hypot(states[p[1]].x - states[p[2]].x, states[p[1]].y - states[p[2]].y)

PairDftSigned(states, p) == states[p[1]].alt - states[p[2]].alt

PairDft(states, p) == Abs(states[p[1]].alt - states[p[2]].alt)

IsLosOr(d_nm, d_ft) == d_nm < SEP_NM \/ d_ft < SEP_FT

IsLos(d_nm, d_ft) == d_nm < SEP_NM /\ d_ft < SEP_FT

RECURSIVE SepLoop(_, _, _, _)
SepLoop(states, todo, min_sep, los_count) ==
    IF todo = {} THEN <<min_sep, los_count>>
    ELSE LET p == CHOOSE q \in todo :
                      \A r \in todo : q[1] < r[1] \/ (q[1] = r[1] /\ q[2] <= r[2])
             rest == todo \ {p}
         IN  IF ~LivePair(states, p)
             THEN SepLoop(states, rest, min_sep, los_count)
             ELSE SepLoop(states, rest,
                          Min2(min_sep, PairDnm(states, p)),
                          IF IsLos(PairDnm(states, p), PairDft(states, p))
                          THEN los_count + 1 ELSE los_count)

pairwise_min_separation_nm(states) ==
    LET res == SepLoop(states, PairsOf(Len(states)), MinSepInit, 0)
    IN  <<IF res[1] < MinSepInit THEN res[1] ELSE MinSepNone, res[2]>>

\* ------------------------------------------------------------ reward engine
GoalRange(a) == Hypot(a.gx - a.x, a.gy - a.y)

\* one iteration of the zip(prev_states, cur_states) loop: <<prog, terminal>>
RewardIter(a_prev, a_cur) ==
    IF ~a_cur.alive
    THEN <<0, IF a_prev.alive /\ GoalRange(a_cur) < TerminalRange
              THEN TerminalBonus ELSE 0>>
    ELSE <<Hypot(a_cur.gx - a_prev.x, a_cur.gy - a_prev.y) - GoalRange(a_cur), 0>>

ZipLen(prev, cur) == Min2(Len(prev), Len(cur))

CatastropheGateAny(los_count) == IF los_count >= 1 THEN 0 - CatastrophePenalty ELSE 0

CatastropheGate(los_count) ==
    IF los_count >= CatastropheLos THEN 0 - CatastrophePenalty ELSE 0

RewardComps(prev, cur, min_sep_nm, los_count) ==
    LET n == ZipLen(prev, cur)
        prog == SumSeq([i \in 1..n |-> RewardIter(prev[i], cur[i])[1]])
        term == SumSeq([i \in 1..n |-> RewardIter(prev[i], cur[i])[2]])
    IN  [los |-> (0 - LosPenalty) * los_count,
         near |-> IF min_sep_nm < NEAR_NM THEN 0 - NearPenalty ELSE 0,
         progress |-> 5 * prog,
         smooth |-> 0,
         fuel |-> 0,
         terminal |-> term,
         catastrophe |-> CatastropheGate(los_count)]

CompSum(c) ==
    c.los + c.near + c.progress + c.smooth + c.fuel + c.terminal + c.catastrophe

ClipUpper(v, lo, hi) == IF v > hi THEN hi ELSE v

Clip(v, lo, hi) == IF v < lo THEN lo ELSE IF v > hi THEN hi ELSE v

compute_reward(prev, cur, min_sep_nm, los_count) ==
    LET comps == RewardComps(prev, cur, min_sep_nm, los_count)
    IN  [r |-> Clip(CompSum(comps), ClipLow, ClipHigh), comps |-> comps]

\* ================================================================ harnesses
\* ---- inputs of the separation harness ----
SepPositions == {<<0, 0>>, <<3, 0>>, <<3, 4>>, <<9, 0>>}

SepAlts == {10000, 10900, 11000}

SepAircraft ==
    {[x |-> p[1], y |-> p[2], alt |-> a, alive |-> l] :
        p \in SepPositions, a \in SepAlts, l \in BOOLEAN}

SepInputs == UNION {[1..n -> SepAircraft] : n \in 0..MaxAc}

\* ---- inputs of the reordering harness: 3, 4 and 5 NM apart, 0 or 1000 ft ----
SymAircraft ==
    {[x |-> p[1], y |-> p[2], alt |-> a, alive |-> l] :
        p \in {<<0, 0>>, <<3, 0>>, <<3, 4>>}, a \in {10000, 11000}, l \in BOOLEAN}

SymInputs == UNION {[1..n -> SymAircraft] : n \in 0..SymAc}

\* ---- inputs of the reward harness ----
RwAircraft ==
    {[x |-> px, y |-> 0, gx |-> 9, gy |-> 0, alive |-> l] :
        px \in {0, 9}, l \in BOOLEAN}

RwLists == UNION {[1..n -> RwAircraft] : n \in 1..RwAc}

RwMinSeps == {400, 600, MinSepNone}

RwInputs ==
    {[prev |-> p, cur |-> c, min_sep |-> m, los |-> k] :
        p \in RwLists, c \in RwLists, m \in RwMinSeps, k \in 0..MaxLos}

\* ---- the simulator behind the env (BlueSkySim, not part of the sources) ----
Scenario ==
    << [id |-> "AC1", x |-> 0, y |-> 0, alt |-> 10000, gx |-> 9, gy |-> 0, alive |-> TRUE],
       [id |-> "AC2", x |-> 3, y |-> 0, alt |-> 10000, gx |-> 9, gy |-> 0, alive |-> TRUE],
       [id |-> "AC3", x |-> 6, y |-> 0, alt |-> 10000, gx |-> 9, gy |-> 0, alive |-> TRUE] >>

\* one aircraft after a simulator tick: it holds, advances towards its goal,
\* or leaves the sector; an aircraft that left stays as it was
SimAircraftNext(a) ==
    IF ~a.alive THEN {a}
    ELSE {a, [a EXCEPT !.alive = FALSE]}
         \cup (IF a.x < a.gx THEN {[a EXCEPT !.x = a.x + 3]} ELSE {})

SimStep(states) ==
    {s \in [1..Len(states) -> UNION {SimAircraftNext(states[i]) : i \in 1..Len(states)}] :
        \A i \in 1..Len(states) : s[i] \in SimAircraftNext(states[i])}

\* ------------------------------------------------------- SyntheticTowerEnv
\* the alive vector of _encode_obs, over the first MAX_AC states
EncodeAlive(states) ==
    [i \in 1..Min2(Len(states), MAX_AC) |-> IF states[i].alive THEN 1 ELSE 0]

TerminatedCatastropheOnly(catastrophe, num_alive) == catastrophe < 0

Terminated(catastrophe, num_alive) == catastrophe < 0 \/ num_alive = 0

TruncatedPastHorizon(count, horizon) == count > horizon

Truncated(count, horizon) == count >= horizon

EnvReset ==
    /\ last_states' = SomeStates(Scenario)
    /\ alive_mask' = EncodeAlive(Scenario)
    /\ step_count' = 0
    /\ stepRet' = [kind |-> "reset", num_alive |-> SumSeq(EncodeAlive(Scenario))]

\* step() before any reset: the counter is bumped, then _last_states[:MAX_AC] raises
EnvStepUnreset ==
    /\ last_states.none
    /\ step_count < MaxSteps
    /\ step_count' = step_count + 1
    /\ stepRet' = [kind |-> "raise"]
    /\ UNCHANGED <<last_states, alive_mask>>

EnvStep ==
    /\ ~last_states.none
    /\ step_count < MaxSteps
    /\ \E states \in SimStep(last_states.list) :
          LET alive == EncodeAlive(states)
              sep == pairwise_min_separation_nm(states)
              rw == compute_reward(last_states.list, states, sep[1], sep[2])
          IN  /\ step_count' = step_count + 1
              /\ last_states' = SomeStates(states)
              /\ alive_mask' = alive
              /\ stepRet' = [kind |-> "step",
                             reward |-> rw.r,
                             terminated |-> Terminated(rw.comps.catastrophe, SumSeq(alive)),
                             truncated |-> Truncated(step_count + 1, Horizon),
                             r_components |-> rw.comps,
                             min_sep_nm |-> sep[1],
                             los |-> sep[2],
                             num_alive |-> SumSeq(alive),
                             step_count |-> step_count + 1]

\* --------------------------------------------------------- DecisionTracker
\* deque(maxlen).append: the oldest record falls out when the deque is full
TrackerAppendDropNewest(buf, rec, maxlen) ==
    IF Len(buf) >= maxlen THEN buf ELSE Append(buf, rec)

TrackerAppend(buf, rec, maxlen) ==
    IF Len(buf) >= maxlen
    THEN IF maxlen = 0 THEN <<>> ELSE Append(Tail(buf), rec)
    ELSE Append(buf, rec)

\* f"decision_{count}_{ms}"
DecisionId(count, ms) == <<count, ms>>

RECURSIVE get_decision_by_id(_, _)
get_decision_by_id(buf, id) ==
    IF buf = <<>> THEN NoResult
    ELSE IF Head(buf).decision_id = id THEN Head(buf)
    ELSE get_decision_by_id(Tail(buf), id)

RECURSIVE Reverse(_)
Reverse(q) == IF q = <<>> THEN <<>> ELSE Append(Reverse(Tail(q)), Head(q))

\* decisions[:limit] for limit >= 0
Prefix(q, limit) == SubSeq(q, 1, Min2(limit, Len(q)))

\* limit = None
NoLimit == 0 - 1

HistoryOldestFirst(buf, limit) ==
    IF limit = NoLimit THEN buf ELSE Prefix(buf, limit)

\* get_decision_history(limit): list(reversed(deque)), then [:limit] unless
\* limit is None
get_decision_history(buf, limit) ==
    IF limit = NoLimit THEN Reverse(buf) ELSE Prefix(Reverse(buf), limit)

\* get_statistics()["total_decisions"]
TotalDecisions(buf, count) == IF buf = <<>> THEN 0 ELSE count

\* the kinds of policy_output / event payload: a well-formed one, one whose
\* value_estimate or confidence_scores is None (log_decision raises after the
\* counter was bumped), and an event whose data is None (the handler raises
\* before log_decision)
PayloadKinds == {"ok", "bad_field", "no_data"}

LogDecisionBody(kind, source) ==
    /\ trk_calls < MaxLogged
    /\ trk_calls' = trk_calls + 1
    /\ decision_count' = decision_count + 1
    /\ trk_last' = [op |-> source, kind |-> kind]
    /\ IF kind = "ok"
       THEN /\ decisions' = TrackerAppend(decisions,
                                [decision_id |-> DecisionId(decision_count + 1, trk_now),
                                 timestamp |-> trk_now,
                                 source |-> source],
                                max_decisions)
            /\ trk_logged' = Append(trk_logged, DecisionId(decision_count + 1, trk_now))
       ELSE UNCHANGED <<decisions, trk_logged>>
    /\ UNCHANGED <<trk_now, trk_reset, max_decisions, trk_subscribed>>

log_decision == \E kind \in {"ok", "bad_field"} : LogDecisionBody(kind, "call")

HandlerRaisesAlways(kind) == TRUE

\* _handle_policy_decision_event, lines 318-330: data.get raises when the
\* event carries no data
HandlerRaisesBeforeLog(kind) == kind = "no_data"

\* _handle_policy_decision_event, called by the bus while the tracker is
\* subscribed: every exception is swallowed
HandlePolicyDecisionEvent ==
    /\ trk_subscribed
    /\ \E kind \in PayloadKinds :
        IF HandlerRaisesBeforeLog(kind)
        THEN /\ trk_calls < MaxLogged
             /\ trk_calls' = trk_calls + 1
             /\ trk_last' = [op |-> "event", kind |-> kind]
             /\ UNCHANGED <<decisions, decision_count, trk_now, trk_logged, trk_reset,
                            max_decisions, trk_subscribed>>
        ELSE LogDecisionBody(kind, "event")

clear_history ==
    /\ decisions # <<>> \/ decision_count # 0
    /\ decisions' = <<>>
    /\ decision_count' = 0
    /\ trk_reset' = TRUE
    /\ trk_last' = [op |-> "clear", kind |-> "ok"]
    /\ UNCHANGED <<trk_now, trk_logged, trk_calls, max_decisions, trk_subscribed>>

\* a file written by save_to_file: n records, oldest first
SavedFile(n) ==
    [i \in 1..n |-> [decision_id |-> DecisionId(i, 0), timestamp |-> 0, source |-> "file"]]

\* load_from_file: the buffer is replaced by the last max_decisions records of
\* the file and the counter by the number of records in the file
load_from_file ==
    /\ trk_calls < MaxLogged
    /\ trk_calls' = trk_calls + 1
    /\ \E n \in 0..MaxFile :
          /\ decisions' = LastN(SavedFile(n), Min2(n, max_decisions))
          /\ decision_count' = n
    /\ trk_reset' = TRUE
    /\ trk_last' = [op |-> "load", kind |-> "ok"]
    /\ UNCHANGED <<trk_now, trk_logged, max_decisions, trk_subscribed>>

\* DecisionTracker.shutdown: unsubscribes from the bus
tracker_shutdown ==
    /\ trk_subscribed
    /\ trk_subscribed' = FALSE
    /\ trk_last' = [op |-> "shutdown", kind |-> "ok"]
    /\ UNCHANGED <<decisions, decision_count, trk_now, trk_logged, trk_reset, trk_calls,
                   max_decisions>>

TrkTick ==
    /\ trk_now < MaxTrkTime
    /\ trk_now' = trk_now + 1
    /\ UNCHANGED <<decisions, decision_count, trk_logged, trk_reset, trk_calls,
                   max_decisions, trk_subscribed, trk_last>>

\* ---------------------------------------------------------- SafetyAnalyzer
\* Decision records as the analyzer reads them: the action (one number), the
\* action_confidence score ("low": below 0.5, "absent": no such key), the reward
\* ("warn": below -0.5, "none": None), the value estimate, and whether the
\* timestamp lies in the lookback window that ends at the violation.
SaCalm == [action |-> 0, conf |-> "high", reward |-> "ok", value |-> 0, inwin |-> TRUE]

SaProfiles ==
    {SaCalm,
     [SaCalm EXCEPT !.action = 1],
     [SaCalm EXCEPT !.conf = "low"],
     [SaCalm EXCEPT !.reward = "warn"],
     [SaCalm EXCEPT !.value = 3],
     [SaCalm EXCEPT !.conf = "absent", !.reward = "none"],
     [SaCalm EXCEPT !.inwin = FALSE]}

SaHistoriesUpTo(len) == UNION {[1..n -> SaProfiles] : n \in 0..len}

SaHistories == SaHistoriesUpTo(MaxSaHist)

SumSq(q) == SumSeq([i \in 1..Len(q) |-> q[i] * q[i]])

\* _get_relevant_decisions: the decisions of the lookback window, oldest first
GetRelevantDecisions(hist) == SelectSeq(hist, LAMBDA d : d.inwin)

\* decisions[-10:]
Recent(decs) == LastN(decs, Min2(RecentDecisions, Len(decs)))

ActionChanges(recent) ==
    [i \in 1..(Len(recent) - 1) |-> Abs(recent[i + 1].action - recent[i].action)]

\* std(changes) > 0.8 * mean(changes), on n^2 times the squares
Erratic(recent) ==
    /\ Len(recent) > 3
    /\ LET c == ActionChanges(recent)
           n == Len(c)
       IN  100 * (n * SumSq(c) - SumSeq(c) * SumSeq(c)) > 64 * SumSeq(c) * SumSeq(c)

LowConfidence(recent) ==
    2 * Cardinality({i \in 1..Len(recent) : recent[i].conf = "low"}) > Len(recent)

DelayedResponse(decs) ==
    Cardinality({i \in 1..Len(decs) : decs[i].reward = "warn"}) > 2

\* var(value estimates) > 1.0, on n^2 times the variance
Conflicting(recent) ==
    /\ Len(recent) > 1
    /\ LET v == [i \in 1..Len(recent) |-> recent[i].value]
           n == Len(v)
       IN  n * SumSq(v) - SumSeq(v) * SumSeq(v) > n * n

EmptyContextNoCauses == <<>>

\* _identify_root_causes, lines 415-417: no relevant decision
EmptyContextCauses == <<"insufficient_history">>

DefaultCausesNone(causes) == causes

\* _identify_root_causes, lines 465-467
DefaultCauses(causes) == IF causes = <<>> THEN <<"complex_multi_factor">> ELSE causes

IdentifyRootCauses(decs) ==
    IF decs = <<>> THEN EmptyContextCauses
    ELSE LET recent == Recent(decs)
         IN  DefaultCauses(
                 (IF Erratic(recent) THEN <<"erratic_control">> ELSE <<>>)
                 \o (IF LowConfidence(recent) THEN <<"low_confidence">> ELSE <<>>)
                 \o (IF DelayedResponse(decs) THEN <<"delayed_response">> ELSE <<>>)
                 \o (IF Conflicting(recent) THEN <<"conflicting_objectives">> ELSE <<>>))

\* analyze_violation: the violation with its analysis fields filled in
analyze_violation(v, hist) ==
    [v EXCEPT !.root_causes = IdentifyRootCauses(GetRelevantDecisions(hist)),
              !.contributing = Len(GetRelevantDecisions(hist))]

\* the payloads of a safety-violation event: a well-formed one, one whose
\* violation_type or severity is no member of the enum (the constructor call
\* raises), and one whose aircraft_involved is None (the analysis raises)
SaPayloadKinds == {"ok", "bad_enum", "bad_field"}

NewViolation(count) == [id |-> count, root_causes |-> <<>>, contributing |-> 0]

\* get_violation_history(): most recent first
get_violation_history(buf) == Reverse(buf)

\* a direct call of analyze_violation on a fresh violation
AnalyzeViolationCall ==
    /\ sa_out = NoResult
    /\ sa_out' = [kind |-> "analysed", v |-> analyze_violation(NewViolation(0), sa_hist)]
    /\ UNCHANGED <<sa_hist, violations, violation_count, sa_event, sa_calls>>

\* _handle_safety_violation_event: every exception is swallowed
HandleSafetyViolationEvent ==
    /\ sa_calls < MaxViolations
    /\ sa_calls' = sa_calls + 1
    /\ \E kind \in SaPayloadKinds :
          /\ sa_event' = kind
          /\ IF kind = "ok"
             THEN /\ violations' = TrackerAppend(violations,
                                     analyze_violation(NewViolation(violation_count), sa_hist),
                                     ViolationsMaxLen)
                  /\ violation_count' = violation_count + 1
             ELSE UNCHANGED <<violations, violation_count>>
    /\ UNCHANGED <<sa_hist, sa_out>>

\* the analyzer's decision tracker is cleared (DecisionTracker.clear_history)
SaClearDecisions ==
    /\ sa_hist # <<>>
    /\ sa_hist' = <<>>
    /\ UNCHANGED <<violations, violation_count, sa_out, sa_event, sa_calls>>

\* analyze_violation called on a violation taken from get_violation_history():
\* the list holds the stored objects themselves, and the call writes its
\* results into the object it is given
ReanalyzeStored ==
    /\ \E i \in 1..Len(violations) :
          /\ violations' = [violations EXCEPT ![i] = analyze_violation(@, sa_hist)]
          /\ sa_out' = [kind |-> "analysed", v |-> analyze_violation(violations[i], sa_hist)]
    /\ UNCHANGED <<sa_hist, violation_count, sa_event, sa_calls>>

\* get_violation_history() and calculate_safety_metrics() only read
SaQuery ==
    /\ sa_out' = [kind |-> "queried", n |-> Len(get_violation_history(violations))]
    /\ UNCHANGED <<sa_hist, violations, violation_count, sa_event, sa_calls>>

\* ---- safety metrics ----
\* Timestamps and window edges are whole ticks of half an hour; a score is the
\* exact fraction num / den with den > 0.
TicksPerHour == 2

Severities == {"critical", "high", "medium", "low"}

Ticks == 0..MaxTick

SeverityPenaltyFlat(sev) == LowPenalty

SeverityPenalty(sev) ==
    IF sev = "critical" THEN CriticalPenalty
    ELSE IF sev = "high" THEN HighPenalty
    ELSE IF sev = "medium" THEN MediumPenalty
    ELSE LowPenalty

RECURSIVE ViolationPenalty(_)
ViolationPenalty(vs) ==
    IF vs = <<>> THEN 0 ELSE SeverityPenalty(Head(vs).severity) + ViolationPenalty(Tail(vs))

\* the divisor of the penalty, in ticks
PenaltyDivisorRaw(duration) == duration

PenaltyDivisor(duration) == Max2(duration, TicksPerHour)

\* safety_score as a fraction, for a duration in ticks
calculate_safety_score(vs, duration) ==
    IF duration <= 0 THEN [num |-> BaseScore, den |-> 1]
    ELSE LET den == PenaltyDivisor(duration)
         IN  [num |-> Max2(0, BaseScore * den - ViolationPenalty(vs) * TicksPerHour),
              den |-> den]

PeriodViolations(vs, start_time, end_time) ==
    SelectSeq(vs, LAMBDA v : start_time <= v.timestamp /\ v.timestamp <= end_time)

calculate_safety_metrics(vs, start_time, end_time) ==
    LET period == PeriodViolations(vs, start_time, end_time)
        duration == end_time - start_time
    IN  [kind |-> "metrics", start_time |-> start_time, end_time |-> end_time,
         duration |-> duration, total_violations |-> Len(period),
         safety_score |-> calculate_safety_score(period, duration)]

CalculateSafetyMetricsCall ==
    /\ met_out.kind = "none"
    /\ \E start_time \in Ticks, end_time \in Ticks :
          met_out' = calculate_safety_metrics(met_violations, start_time, end_time)
    /\ UNCHANGED met_violations

\* the stored violations metrics are taken over: any short list, and longer
\* lists of violations of one severity at one time
MetMixed ==
    UNION {[1..n -> [severity : Severities, timestamp : Ticks]] : n \in 0..MaxMetLen}

MetUniform ==
    {[i \in 1..n |-> [severity |-> sev, timestamp |-> t]] :
        n \in 1..MaxUniform, sev \in {"low", "critical"}, t \in Ticks}

\* ------------------------------------------- IntegratedVisualizationSystem
\* get_decision_tracker() with no global tracker yet: DecisionTracker()
GlobalTrackerCapacity(wanted) == DefaultMaxDecisions

\* the components in the order initialize builds them
CompOrder == <<"viz", "tracker", "reasoning", "monitor", "websocket", "inspector">>

Comps == {CompOrder[i] : i \in 1..Len(CompOrder)}

\* the components behind an enable_* flag
OptionalComps == {"viz", "tracker", "reasoning", "monitor"}

CompIndex(c) == CHOOSE i \in 1..Len(CompOrder) : CompOrder[i] = c

ConstructionEscapesUncaught(raised) == raised

\* every construction is inside try / except Exception
ConstructionEscapes(raised) == FALSE

\* _wire_components: the subscriptions made for the components present
WireHandlers(comp) ==
    (IF comp["viz"] THEN <<"env_step_for_visualization">> ELSE <<>>)
    \o (IF comp["monitor"] THEN <<"training_iteration">> ELSE <<>>)
    \o (IF comp["reasoning"] THEN <<"episode_end">> ELSE <<>>)
    \o <<"broadcast_env_step", "broadcast_policy_decision", "broadcast_safety_violation">>

MonitorLiveAlways(globals) == TRUE

\* shutdown_performance_monitor: if _global_performance_monitor is not None
MonitorLive(globals) == "monitor" \in globals

\* initialize(): each enabled component is built inside its own try / except,
\* then the components are wired and _initialized is set
SysInitialize(failsets) ==
    /\ sys_calls < MaxSysCalls
    /\ sys_calls' = sys_calls + 1
    /\ IF sys_initialized
       THEN /\ sys_ret' = [op |-> "initialize", outcome |-> "already", failed |-> {}, prev |-> sys_ret.op]
            /\ UNCHANGED <<sys_initialized, sys_comp, sys_wired, sys_globals,
                           sys_sa_subscribed, max_decisions, trk_subscribed, trk_last>>
       ELSE \E fail \in failsets :
              LET attempted == {c \in Comps : c \in OptionalComps => c \in sys_enabled}
                  escaping == {c \in fail : ConstructionEscapes(TRUE)}
                  stop == IF escaping = {} THEN Len(CompOrder) + 1
                          ELSE CHOOSE k \in 1..Len(CompOrder) :
                                   /\ CompOrder[k] \in escaping
                                   /\ \A c \in escaping : CompIndex(c) >= k
                  done == {c \in attempted : CompIndex(c) < stop}
                  comp == [c \in Comps |-> IF c \in done THEN c \notin fail
                                           ELSE sys_comp[c]]
                  newTracker == comp["tracker"] /\ "tracker" \in done
                                   /\ "tracker" \notin sys_globals
                  newSafety == comp["reasoning"] /\ "reasoning" \in done
                                   /\ "safety" \notin sys_globals
                  newMonitor == comp["monitor"] /\ "monitor" \in done
                                   /\ "monitor" \notin sys_globals
              IN  /\ fail \subseteq attempted
                  /\ sys_comp' = comp
                  /\ sys_globals' = sys_globals
                                      \cup (IF newTracker THEN {"tracker"} ELSE {})
                                      \cup (IF newSafety THEN {"safety"} ELSE {})
                                      \cup (IF newMonitor THEN {"monitor"} ELSE {})
                  /\ max_decisions' = IF newTracker
                                      THEN GlobalTrackerCapacity(max_decision_history)
                                      ELSE max_decisions
                  /\ trk_subscribed' = IF newTracker THEN TRUE ELSE trk_subscribed
                  /\ trk_last' = IF newTracker THEN [op |-> "init", kind |-> "ok"]
                                 ELSE trk_last
                  /\ sys_sa_subscribed' = IF newSafety THEN TRUE ELSE sys_sa_subscribed
                  /\ IF stop > Len(CompOrder)
                     THEN /\ sys_wired' = sys_wired \o WireHandlers(comp)
                          /\ sys_initialized' = TRUE
                          /\ sys_ret' = [op |-> "initialize", outcome |-> "returned",
                                         failed |-> fail, prev |-> sys_ret.op]
                     ELSE /\ sys_ret' = [op |-> "initialize", outcome |-> "raised",
                                         failed |-> fail, prev |-> sys_ret.op]
                          /\ UNCHANGED <<sys_wired, sys_initialized>>
    /\ UNCHANGED <<max_decision_history, sys_enabled, sys_persisted, decisions,
                   decision_count, trk_now, trk_logged, trk_reset, trk_calls>>

\* shutdown() of a system that is not running: the components present are shut
\* down and _initialized is cleared
SysShutdown ==
    /\ sys_calls < MaxSysCalls
    /\ sys_calls' = sys_calls + 1
    /\ trk_subscribed' = IF sys_comp["tracker"] THEN FALSE ELSE trk_subscribed
    /\ sys_sa_subscribed' = IF sys_comp["reasoning"] THEN FALSE ELSE sys_sa_subscribed
    /\ IF sys_comp["monitor"] /\ MonitorLive(sys_globals)
       THEN /\ sys_persisted' = sys_persisted + 1
            /\ sys_globals' = sys_globals \ {"monitor"}
       ELSE UNCHANGED <<sys_persisted, sys_globals>>
    /\ sys_initialized' = FALSE
    /\ sys_ret' = [op |-> "shutdown", outcome |-> "returned", failed |-> {}, prev |-> sys_ret.op]
    /\ UNCHANGED <<max_decision_history, sys_enabled, sys_comp, sys_wired, decisions,
                   decision_count, trk_now, trk_logged, trk_reset, trk_calls,
                   max_decisions, trk_last>>

\* ------------------------------------------ the analysis pipeline's handlers
\* the subscribers: DecisionTracker, SafetyAnalyzer, PatternAnalyzer and the
\* system's own handlers (visualization, monitoring, broadcast)
PipeSubs == <<"tracker", "safety", "pattern", "viz", "monitor", "broadcast">>

PipeTypes == {"env.step", "policy.decision", "safety.violation", "training.iteration"}

PipeSubTypes(s) ==
    CASE s = "tracker" -> {"policy.decision"}
      [] s = "safety" -> {"safety.violation"}
      [] s = "pattern" -> {"training.iteration"}
      [] s = "viz" -> {"env.step"}
      [] s = "monitor" -> {"training.iteration"}
      [] s = "broadcast" -> {"env.step", "policy.decision", "safety.violation"}

\* the payloads: well-formed, {} (keys missing), a None value, a value of the
\* wrong type, an unknown violation_type / severity string, data = None
PipeKinds == {"ok", "missing", "none_value", "wrong_type", "bad_enum", "no_data"}

\* whether the handler's body raises on the payload. data.get on None raises
\* in every body that reaches it; the enum conversions raise on an unknown
\* string; the handlers that return early without their component, and the
\* other malformed payloads, may or may not raise
BodyOutcomes(sub, kind) ==
    IF sub = "broadcast" THEN {TRUE, FALSE}
    ELSE IF kind = "ok" THEN {FALSE}
    ELSE IF kind = "no_data" /\ sub \in {"tracker", "safety", "pattern"} THEN {TRUE}
    ELSE IF kind = "bad_enum" /\ sub = "safety" THEN {TRUE}
    ELSE {TRUE, FALSE}

HandlerEscapesUnguarded(raises) == raises

\* every handler's body is inside try / except Exception: nothing gets out
HandlerEscapes(raises) == FALSE

\* _safe_callback: try / except Exception around callback(event)
SafeCallbackEscapes(escaped) == FALSE

\* _notify_subscribers: one work item per subscriber of the event's type
PipeTasks(etype, kind) ==
    LET subs == SelectSeq(PipeSubs, LAMBDA s : etype \in PipeSubTypes(s))
    IN  [i \in 1..Len(subs) |-> [sub |-> subs[i], kind |-> kind]]

\* publish(event): the work items are submitted and the call returns
PipePublish ==
    /\ pipe_count < MaxPipeEvents
    /\ pipe_count' = pipe_count + 1
    /\ \E etype \in PipeTypes : \E kind \in PipeKinds :
          pipe_queue' = pipe_queue \o PipeTasks(etype, kind)
    /\ pipe_publish' = "returned"
    /\ UNCHANGED <<pipe_last, pipe_escaped>>

\* a pool thread runs _safe_callback(handler, event)
PipeRun ==
    /\ pipe_queue # <<>>
    /\ pipe_queue' = Tail(pipe_queue)
    /\ LET item == Head(pipe_queue)
       IN  \E raises \in BodyOutcomes(item.sub, item.kind) :
              /\ pipe_last' = [sub |-> item.sub, kind |-> item.kind,
                               outcome |-> IF raises THEN "swallowed" ELSE "handled"]
              /\ pipe_escaped' = IF HandlerEscapes(raises)
                                 THEN pipe_escaped \cup {item.sub} ELSE pipe_escaped
              /\ pipe_publish' = IF SafeCallbackEscapes(HandlerEscapes(raises))
                                 THEN "worker_failed" ELSE pipe_publish
    /\ UNCHANGED pipe_count

\* --------------------------------------------------------- PatternAnalyzer
\* the patterns found by one call, numbered in detection order
NewPatterns(first, k, by) == [i \in 1..k |-> [n |-> first + i - 1, by |-> by]]

RECURSIVE AppendAll(_, _, _)
\* for pattern in detected_patterns: self._patterns.append(pattern)
AppendAll(buf, ps, maxlen) ==
    IF ps = <<>> THEN buf
    ELSE AppendAll(TrackerAppend(buf, Head(ps), maxlen), Tail(ps), maxlen)

\* analyze_recent_performance: the patterns found by the four analyses (none
\* with fewer than 10 metrics) are stored, counted and returned
analyze_recent_performance ==
    /\ pat_calls < MaxPatCalls
    /\ pat_calls' = pat_calls + 1
    /\ \E k \in 0..MaxDetect :
          LET found == NewPatterns(Len(pat_detected) + 1, k, "analyze")
          IN  /\ pat_patterns' = AppendAll(pat_patterns, found, PatCapacity)
              /\ pattern_count' = pattern_count + k
              /\ pat_detected' = pat_detected \o found
              /\ pat_ret' = [op |-> "analyze", patterns |-> found]

\* detect_anomalies: the anomalies found (none with fewer than 20 metrics or a
\* flat baseline) are counted and returned
detect_anomalies ==
    /\ pat_calls < MaxPatCalls
    /\ pat_calls' = pat_calls + 1
    /\ \E k \in 0..MaxDetect :
          LET found == NewPatterns(Len(pat_detected) + 1, k, "anomalies")
          IN  /\ pattern_count' = pattern_count + k
              /\ pat_detected' = pat_detected \o found
              /\ pat_ret' = [op |-> "anomalies", patterns |-> found]
    /\ UNCHANGED pat_patterns

\* ----------------------------------------------- EventPublishingEnvWrapper
NoEvent == [violation_type |-> "none", severity |-> "none"]

\* _check_safety_violations on info["min_sep_nm"] (whole NM) and info["los"]
check_safety_violations(min_sep_nm, los_count) ==
    IF min_sep_nm < 3 THEN [violation_type |-> "critical_separation", severity |-> "critical"]
    ELSE IF min_sep_nm < 5 THEN [violation_type |-> "loss_of_separation", severity |-> "warning"]
    ELSE IF los_count > 0 THEN [violation_type |-> "near_miss", severity |-> "caution"]
    ELSE NoEvent

ViolationTypes ==
    {"loss_of_separation", "near_miss", "altitude_deviation", "sector_boundary_violation"}

ViolationSeverities == {"low", "medium", "high", "critical"}

\* ViolationType(...) and ViolationSeverity(...) both return a member
EnumsAccept(ev) ==
    /\ ev.violation_type \in ViolationTypes
    /\ ev.severity \in ViolationSeverities

\* step of the wrapped env, then _check_safety_violations and _safe_publish
WrapperStep ==
    /\ wrp_steps < MaxWrapSteps
    /\ wrp_steps' = wrp_steps + 1
    /\ \E min_sep_nm \in 0..MaxWrapSep, los_count \in 0..MaxWrapLos :
          LET ev == check_safety_violations(min_sep_nm, los_count)
          IN  wrp_queue' = IF ev = NoEvent THEN wrp_queue ELSE Append(wrp_queue, ev)
    /\ UNCHANGED <<wrp_handled, wrp_stored>>

\* _handle_safety_violation_event for the oldest pending event: the enum
\* constructors raise ValueError for a value they do not know, and the
\* handler swallows it
WrapperEventHandled ==
    /\ wrp_queue # <<>>
    /\ wrp_queue' = Tail(wrp_queue)
    /\ LET ev == Head(wrp_queue)
       IN  IF EnumsAccept(ev)
           THEN /\ wrp_stored' = Append(wrp_stored, ev)
                /\ wrp_handled' = Append(wrp_handled, [event |-> ev, stored |-> TRUE])
           ELSE /\ wrp_handled' = Append(wrp_handled, [event |-> ev, stored |-> FALSE])
                /\ UNCHANGED wrp_stored
    /\ UNCHANGED wrp_steps

\* --------------------------------------------------------- ReportGenerator
Assessments == {"excellent", "good", "concerning", "critical"}

PatternSeverities == {"benign", "notable", "concerning", "critical"}

\* safety scores around every threshold the generator compares with
ScoreSamples == {0, 59, 60, 61, 69, 70, 71, 79, 80, 81, 84, 85, 86, 89, 90, 91, 94, 95, 96, 100}

PatternLists == UNION {[1..n -> PatternSeverities] : n \in 0..MaxPatterns}

TrendDirections == {"improving", "declining", "stable"}

CountOf(patterns, sev) == Len(SelectSeq(patterns, LAMBDA q : q = sev))

ScoreBand(score) ==
    IF score >= 90 THEN "excellent"
    ELSE IF score >= 80 THEN "good"
    ELSE IF score >= 70 THEN "concerning"
    ELSE "critical"

DowngradeNever(base) == base

DowngradeForCritical(base) ==
    IF base \in {"excellent", "good"} THEN "concerning"
    ELSE IF base = "concerning" THEN "critical"
    ELSE base

determine_overall_assessment(score, patterns) ==
    LET base_assessment == ScoreBand(score)
    IN  IF CountOf(patterns, "critical") > 0 THEN DowngradeForCritical(base_assessment)
        ELSE IF CountOf(patterns, "concerning") > 0 /\ base_assessment = "excellent" THEN "good"
        ELSE base_assessment

assess_performance_health(patterns, direction, anomalies) ==
    LET health_score == 100 - 20 * CountOf(patterns, "critical")
                            - 10 * CountOf(patterns, "concerning")
                            - 5 * anomalies
                            + (IF direction = "declining" THEN 0 - 15
                               ELSE IF direction = "improving" THEN 5 ELSE 0)
    IN  IF health_score >= 90 THEN "excellent"
        ELSE IF health_score >= 75 THEN "good"
        ELSE IF health_score >= 60 THEN "concerning"
        ELSE "critical"

assess_safety_level(score) ==
    IF score >= 95 THEN "excellent"
    ELSE IF score >= 85 THEN "good"
    ELSE IF score >= 70 THEN "concerning"
    ELSE "critical"

NewAlert(kind) ==
    [alert_id |-> kind, acknowledged |-> FALSE, resolved |-> FALSE,
     resolution_notes |-> "None"]

\* f"<kind>_{int(time.time())}": alert ids end in the second of their creation;
\* the alerts followed here are those created within one second
check_for_alerts(score, patterns) ==
    (IF score < 60 THEN <<NewAlert("safety_critical")>>
     ELSE IF score < 80 THEN <<NewAlert("safety_warning")>>
     ELSE <<>>)
    \o (IF CountOf(patterns, "critical") > 0 THEN <<NewAlert("pattern_critical")>> ELSE <<>>)

check_safety_alerts(rate_over) ==
    IF rate_over THEN <<NewAlert("violation_rate")>> ELSE <<>>

generate_daily_summary ==
    /\ rep_report.type = "none"
    /\ \E score \in ScoreSamples, patterns \in PatternLists :
          LET alerts == check_for_alerts(score, patterns)
          IN  /\ rep_report' = [type |-> "daily_summary", has_score |-> TRUE,
                                score |-> score, patterns |-> patterns,
                                overall_assessment
                                    |-> determine_overall_assessment(score, patterns),
                                alerts |-> alerts]
              /\ rep_alerts' = rep_alerts \o alerts
    /\ UNCHANGED rep_ret

generate_performance_analysis ==
    /\ rep_report.type = "none"
    /\ \E patterns \in PatternLists, direction \in TrendDirections,
          anomalies \in 0..MaxAnomalies :
          rep_report' = [type |-> "performance_analysis", has_score |-> FALSE,
                         score |-> 0, patterns |-> patterns,
                         overall_assessment
                             |-> assess_performance_health(patterns, direction, anomalies),
                         alerts |-> <<>>]
    /\ UNCHANGED <<rep_alerts, rep_ret>>

generate_safety_assessment ==
    /\ rep_report.type = "none"
    /\ \E score \in ScoreSamples, rate_over \in BOOLEAN :
          LET alerts == check_safety_alerts(rate_over)
          IN  /\ rep_report' = [type |-> "safety_assessment", has_score |-> TRUE,
                                score |-> score, patterns |-> <<>>,
                                overall_assessment |-> assess_safety_level(score),
                                alerts |-> alerts]
              /\ rep_alerts' = rep_alerts \o alerts
    /\ UNCHANGED rep_ret

AlertIds == {"safety_critical", "safety_warning", "pattern_critical", "violation_rate"}

CallIds == AlertIds \cup {"unknown"}

ResolutionNotes == {"", "fixed"}

\* index of the first alert with the id, 0 if there is none
FirstAlert(alerts, alert_id) ==
    IF \E i \in 1..Len(alerts) : alerts[i].alert_id = alert_id
    THEN CHOOSE i \in 1..Len(alerts) :
            /\ alerts[i].alert_id = alert_id
            /\ \A j \in 1..(i - 1) : alerts[j].alert_id # alert_id
    ELSE 0

AcknowledgeAlert(alert_id) ==
    LET i == FirstAlert(rep_alerts, alert_id)
    IN  /\ rep_alerts' = IF i = 0 THEN rep_alerts
                         ELSE [rep_alerts EXCEPT ![i].acknowledged = TRUE]
        /\ rep_ret' = IF i # 0 THEN "True" ELSE "False"
        /\ UNCHANGED rep_report

acknowledge_alert == \E alert_id \in CallIds : AcknowledgeAlert(alert_id)

ResolveAlert(alert_id, resolution_notes) ==
    LET i == FirstAlert(rep_alerts, alert_id)
    IN  /\ rep_alerts' = IF i = 0 THEN rep_alerts
                         ELSE [rep_alerts EXCEPT
                                  ![i].resolved = TRUE,
                                  ![i].resolution_notes = resolution_notes]
        /\ rep_ret' = IF i # 0 THEN "True" ELSE "False"
        /\ UNCHANGED rep_report

resolve_alert ==
    \E alert_id \in CallIds, resolution_notes \in ResolutionNotes :
        ResolveAlert(alert_id, resolution_notes)

\* the caller has its report, and asks for the next one within the second
NextReport ==
    /\ rep_report.type # "none"
    /\ Len(rep_alerts) < MaxAlerts
    /\ rep_report' = [type |-> "none"]
    /\ UNCHANGED <<rep_alerts, rep_ret>>

\* the alerts stored by earlier reports, none acknowledged or resolved yet
AlertLists == UNION {[1..n -> {NewAlert(k) : k \in AlertIds}] : n \in 0..MaxAlerts}

\* ------------------------------------------------ the daily report scheduler
\* schedule_daily_reports: returns at once when a scheduler is active; else
\* clears the shutdown event and starts a new thread on scheduler_loop
schedule_daily_reports ==
    /\ sched_pc = "idle"
    /\ IF scheduler_active
       THEN UNCHANGED <<scheduler_active, shutdown_event, scheduler_thread, sched_pc,
                        loop_pc, loops_started, loop_stopped, loop_late, sched_reports>>
       ELSE /\ loops_started < MaxLoops
            /\ scheduler_active' = TRUE
            /\ shutdown_event' = FALSE
            /\ loops_started' = loops_started + 1
            /\ scheduler_thread' = loops_started + 1
            /\ loop_pc' = Append(loop_pc, "check")
            /\ UNCHANGED <<sched_pc, loop_stopped, loop_late, sched_reports>>

\* threading.Event.set(): every thread inside wait() is notified, and its
\* wait() returns True
WakeWaiting(pcs) == [t \in 1..Len(pcs) |-> IF pcs[t] = "waiting" THEN "woken" ELSE pcs[t]]

\* stop_scheduler up to the join
StopSchedulerBegin ==
    /\ sched_pc = "idle"
    /\ IF ~scheduler_active
       THEN UNCHANGED <<scheduler_active, shutdown_event, scheduler_thread, sched_pc,
                        loop_pc, loops_started, loop_stopped, loop_late, sched_reports>>
       ELSE /\ scheduler_active' = FALSE
            /\ shutdown_event' = TRUE
            /\ loop_pc' = WakeWaiting(loop_pc)
            /\ loop_stopped' = loop_stopped \cup {scheduler_thread}
            /\ sched_pc' = "joining"
            /\ UNCHANGED <<scheduler_thread, loops_started, loop_late, sched_reports>>

\* join(timeout=5.0) returns, the thread having ended or the timeout having
\* run out; the reference is dropped either way
StopSchedulerJoin ==
    /\ sched_pc = "joining"
    /\ scheduler_thread' = 0
    /\ sched_pc' = "idle"
    /\ UNCHANGED <<scheduler_active, shutdown_event, loop_pc, loops_started, loop_stopped,
                   loop_late, sched_reports>>

\* while not self._shutdown_event.is_set(): ... up to the wait
LoopCheck(t) ==
    /\ loop_pc[t] = "check"
    /\ loop_pc' = [loop_pc EXCEPT ![t] = IF shutdown_event THEN "done" ELSE "waiting"]
    /\ UNCHANGED <<scheduler_active, shutdown_event, scheduler_thread, sched_pc,
                   loops_started, loop_stopped, loop_late, sched_reports>>

\* wait(wait_seconds) returns False: the report time has come
LoopWaitTimeout(t) ==
    /\ loop_pc[t] = "waiting"
    /\ sched_reports < MaxSchedReports
    /\ loop_pc' = [loop_pc EXCEPT ![t] = "generating"]
    /\ loop_late' = IF t \in loop_stopped THEN loop_late \cup {t} ELSE loop_late
    /\ UNCHANGED <<scheduler_active, shutdown_event, scheduler_thread, sched_pc,
                   loops_started, loop_stopped, sched_reports>>

\* wait(wait_seconds) returned True: break
LoopWoken(t) ==
    /\ loop_pc[t] = "woken"
    /\ loop_pc' = [loop_pc EXCEPT ![t] = "done"]
    /\ UNCHANGED <<scheduler_active, shutdown_event, scheduler_thread, sched_pc,
                   loops_started, loop_stopped, loop_late, sched_reports>>

\* generate_daily_report() returns (or raises: the loop goes on alike)
LoopGenerate(t) ==
    /\ loop_pc[t] = "generating"
    /\ loop_pc' = [loop_pc EXCEPT ![t] = "check"]
    /\ sched_reports' = sched_reports + 1
    /\ UNCHANGED <<scheduler_active, shutdown_event, scheduler_thread, sched_pc,
                   loops_started, loop_stopped, loop_late>>

\* ------------------------------------------- the EventBus's worker threads
\* ThreadPoolExecutor(max_workers=4): a worker thread takes the oldest work
\* item off the queue, and then runs it: two steps of the thread
PoolWorkers == 1..max_workers

\* rec records what it gets (the decision tracker's handler), blk never
\* returns, san is the safety analyzer's _handle_safety_violation_event
PoolSubIds == {"rec", "blk", "san"}

Blocks(s) == s = "blk"

NoTask == [sub |-> "none", ev |-> 0, st |-> "idle", id |-> <<0, 0>>]

\* one _safe_callback work item per subscriber of the copied registry
PoolTasks(reg, e) == [i \in 1..Len(reg) |-> [sub |-> reg[i], ev |-> e]]

\* f"violation_{self._violation_count}_{int(event.timestamp * 1000)}"
ViolationId(count, e) == <<count, pool_stamps[e]>>

PoolSubscribe(s) ==
    /\ s \notin pool_used
    /\ pool_used' = pool_used \cup {s}
    /\ pool_registry' = Append(pool_registry, s)
    /\ UNCHANGED <<pool_queue, pool_run, pool_received, pool_stamps, pool_gone, pool_ret,
                   pool_late, pool_violation_count, pool_violation_ids>>

\* unsubscribe(subscription_id): True when the id was in the registry
PoolUnsubscribe(s) ==
    /\ IF \E i \in 1..Len(pool_registry) : pool_registry[i] = s
       THEN /\ pool_registry' = SelectSeq(pool_registry, LAMBDA x : x # s)
            /\ pool_gone' = pool_gone \cup {s}
            /\ pool_ret' = [id |-> s, ret |-> "True"]
       ELSE /\ pool_ret' = [id |-> s, ret |-> "False"]
            /\ UNCHANGED <<pool_registry, pool_gone>>
    /\ UNCHANGED <<pool_used, pool_queue, pool_run, pool_received, pool_stamps, pool_late,
                   pool_violation_count, pool_violation_ids>>

\* publish(event) by the one publishing thread: the event is stamped with one
\* of the clock's readings, and
\* _notify_subscribers submits one work item per registered callback
PoolPublish(clock) ==
    /\ Len(pool_stamps) < MaxPoolEvents
    /\ \E stamp \in clock :
          /\ pool_stamps # <<>> => stamp >= pool_stamps[Len(pool_stamps)]
          /\ pool_stamps' = Append(pool_stamps, stamp)
    /\ pool_queue' = pool_queue \o PoolTasks(pool_registry, Len(pool_stamps) + 1)
    /\ UNCHANGED <<pool_registry, pool_used, pool_run, pool_received, pool_gone, pool_ret,
                   pool_late, pool_violation_count, pool_violation_ids>>

\* an idle worker thread takes the oldest work item
PoolTake(w) ==
    /\ pool_run[w].st = "idle"
    /\ pool_queue # <<>>
    /\ pool_run' = [pool_run EXCEPT ![w] = [sub |-> Head(pool_queue).sub,
                                            ev |-> Head(pool_queue).ev,
                                            st |-> "taken", id |-> <<0, 0>>]]
    /\ pool_queue' = Tail(pool_queue)
    /\ UNCHANGED <<pool_registry, pool_used, pool_received, pool_stamps, pool_gone,
                   pool_ret, pool_late, pool_violation_count, pool_violation_ids>>

\* the worker runs _safe_callback: the callback is invoked. A blocking one
\* never returns; the analyzer's builds the violation, reading the counter
\* outside the lock; the recording one appends under its own lock
PoolCall(w) ==
    /\ pool_run[w].st = "taken"
    /\ LET s == pool_run[w].sub
           e == pool_run[w].ev
       IN  /\ pool_late' = IF s \in pool_gone THEN pool_late \cup {<<s, e>>} ELSE pool_late
           /\ IF Blocks(s)
              THEN /\ pool_run' = [pool_run EXCEPT ![w].st = "blocked"]
                   /\ UNCHANGED pool_received
              ELSE IF s = "san"
              THEN /\ pool_run' = [pool_run EXCEPT ![w].st = "built",
                                       ![w].id = ViolationId(pool_violation_count, e)]
                   /\ UNCHANGED pool_received
              ELSE /\ pool_run' = [pool_run EXCEPT ![w] = NoTask]
                   /\ pool_received' = [pool_received EXCEPT ![s] = Append(@, e)]
    /\ UNCHANGED <<pool_registry, pool_used, pool_queue, pool_stamps, pool_gone, pool_ret,
                   pool_violation_count, pool_violation_ids>>

\* the analyzer's handler, lines 659-661: with self._lock, the append and
\* the increment of the counter
PoolStore(w) ==
    /\ pool_run[w].st = "built"
    /\ pool_violation_ids' = Append(pool_violation_ids, pool_run[w].id)
    /\ pool_violation_count' = pool_violation_count + 1
    /\ pool_received' = [pool_received EXCEPT !["san"] = Append(@, pool_run[w].ev)]
    /\ pool_run' = [pool_run EXCEPT ![w] = NoTask]
    /\ UNCHANGED <<pool_registry, pool_used, pool_queue, pool_stamps, pool_gone, pool_ret,
                   pool_late>>

\* ---------------------------------------------------------------- EventBus
\* the pool's worker threads (max_workers = 4 in the code) and the caller's
Workers == {"w1"}

Threads == {"main"} \cup Workers

EventTypes == {"A", "B"}

\* s1's callback raises on every call, s2's records what it gets
SubIds == {"s1", "s2"}

SubType(s) == "A"

Raises(s) == s = "s1"

\* f_raise raises on every event, f_noB returns False for the events of type B
FilterIds == {"f_raise", "f_noB"}

FilterResult(f, etype) ==
    IF f = "f_raise" THEN "raise"
    ELSE IF etype = "B" THEN "false" ELSE "true"

EvType(e) == ev_log[e].type

\* _apply_filters: the first filter returning False vetoes; a raising filter
\* is logged and the loop goes on
RECURSIVE ApplyFiltersStopOnRaise(_, _)
ApplyFiltersStopOnRaise(fs, etype) ==
    IF fs = <<>> THEN TRUE
    ELSE IF FilterResult(Head(fs), etype) = "raise" THEN TRUE
    ELSE IF FilterResult(Head(fs), etype) = "false" THEN FALSE
    ELSE ApplyFiltersStopOnRaise(Tail(fs), etype)

RECURSIVE ApplyFilters(_, _)
ApplyFilters(fs, etype) ==
    IF fs = <<>> THEN TRUE
    ELSE IF FilterResult(Head(fs), etype) = "false" THEN FALSE
    ELSE ApplyFilters(Tail(fs), etype)

\* deque(maxlen=max_history).append
HistoryAppend(h, e, maxlen) ==
    IF Len(h) >= maxlen
    THEN IF maxlen = 0 THEN <<>> ELSE Append(Tail(h), e)
    ELSE Append(h, e)

\* get_event_history(event_type, limit): `if event_type:` and `if limit:`, so
\* None ("none", NoLimit) and 0 both leave the list as it is
get_event_history(h, etype, limit) ==
    LET typed == IF etype = "none" THEN h ELSE SelectSeq(h, LAMBDA e : EvType(e) = etype)
    IN  IF limit = NoLimit \/ limit = 0 THEN typed
        ELSE LastN(typed, Min2(limit, Len(typed)))

\* the copy of the registry taken by _notify_subscribers for one event type
Snapshot(subs, etype) == SelectSeq(subs, LAMBDA s : SubType(s) = etype)

\* the callbacks run one after the other in the publishing thread, unguarded:
\* the first one that raises ends the loop
RECURSIVE NotifyTasksInline(_, _)
NotifyTasksInline(snap, e) ==
    IF snap = <<>> THEN <<>>
    ELSE IF Raises(Head(snap)) THEN <<[kind |-> "cb", sub |-> Head(snap), ev |-> e]>>
    ELSE <<[kind |-> "cb", sub |-> Head(snap), ev |-> e]>> \o NotifyTasksInline(Tail(snap), e)

\* one _safe_callback work item per subscriber of the snapshot
NotifyTasks(snap, e) ==
    [i \in 1..Len(snap) |-> [kind |-> "cb", sub |-> snap[i], ev |-> e]]

RunningCheckSkipped(r) == TRUE

\* publish / publish_async go on only while the bus is running
RunningCheck(r) == r

Registered(etype) == {s \in SubIds : \E i \in 1..Len(subscribers) :
                         subscribers[i] = s /\ SubType(s) = etype}

NewEvent(etype, via) ==
    [type |-> etype, via |-> via, reg |-> Registered(etype),
     status |-> "called", stamp |-> 0, vetoed |-> FALSE, seq |-> 0]

\* history: the events appended to the history so far
AcceptCount == Cardinality({e \in 1..Len(ev_log) : ev_log[e].seq > 0})

SetStatus(e, st) == [ev_log EXCEPT ![e].status = st]

subscribe(s) ==
    /\ pc["main"] = "idle"
    /\ s \notin sub_used
    /\ sub_used' = sub_used \cup {s}
    /\ subscribers' = Append(subscribers, s)
    /\ UNCHANGED <<running, exec_shutdown, filters, event_history, rate_counter,
                   rate_window, window_over, queue, pc, cur_ev, rc, cb_calls, ev_log, shutdowns>>

unsubscribe(s) ==
    /\ pc["main"] = "idle"
    /\ \E i \in 1..Len(subscribers) : subscribers[i] = s
    /\ subscribers' = SelectSeq(subscribers, LAMBDA x : x # s)
    /\ UNCHANGED <<running, exec_shutdown, filters, event_history, rate_counter,
                   rate_window, window_over, queue, pc, cur_ev, rc, cb_calls, ev_log,
                   sub_used, shutdowns>>

add_filter(f) ==
    /\ pc["main"] = "idle"
    /\ \A i \in 1..Len(filters) : filters[i] # f
    /\ filters' = Append(filters, f)
    /\ UNCHANGED <<running, exec_shutdown, subscribers, event_history, rate_counter,
                   rate_window, window_over, queue, pc, cur_ev, rc, cb_calls, ev_log,
                   sub_used, shutdowns>>

\* a second or more has passed since the rate window began
BusTick ==
    /\ ~window_over
    /\ window_over' = TRUE
    /\ UNCHANGED <<running, exec_shutdown, subscribers, filters, event_history,
                   rate_counter, rate_window, queue, pc, cur_ev, rc, cb_calls,
                   ev_log, sub_used, shutdowns>>

\* publish(event) called by the main thread: the _running test of line 108
publish(etype) ==
    /\ pc["main"] = "idle"
    /\ Len(ev_log) < MaxEvents
    /\ LET e == Len(ev_log) + 1
       IN  IF RunningCheck(running)
           THEN /\ ev_log' = Append(ev_log, NewEvent(etype, "sync"))
                /\ pc' = [pc EXCEPT !["main"] = "p_rate"]
                /\ cur_ev' = [cur_ev EXCEPT !["main"] = e]
           ELSE /\ ev_log' = Append(ev_log, [NewEvent(etype, "sync") EXCEPT !.status = "norun"])
                /\ UNCHANGED <<pc, cur_ev>>
    /\ UNCHANGED <<running, exec_shutdown, subscribers, filters, event_history,
                   rate_counter, rate_window, window_over, queue, rc, cb_calls,
                   sub_used, shutdowns>>

\* publish_async(event): hands publish(event) to the pool
publish_async(etype) ==
    /\ pc["main"] = "idle"
    /\ Len(ev_log) < MaxEvents
    /\ LET e == Len(ev_log) + 1
       IN  IF RunningCheck(running)
           THEN /\ ev_log' = Append(ev_log, NewEvent(etype, "async"))
                /\ queue' = Append(queue, [kind |-> "publish", sub |-> "none", ev |-> e])
           ELSE /\ ev_log' = Append(ev_log, [NewEvent(etype, "async") EXCEPT !.status = "norun"])
                /\ UNCHANGED queue
    /\ UNCHANGED <<running, exec_shutdown, subscribers, filters, event_history,
                   rate_counter, rate_window, window_over, pc, cur_ev, rc, cb_calls,
                   sub_used, shutdowns>>

\* a pool thread takes a publish work item and runs publish's _running test
WorkerStartPublish(w) ==
    /\ pc[w] = "idle"
    /\ queue # <<>>
    /\ Head(queue).kind = "publish"
    /\ queue' = Tail(queue)
    /\ IF RunningCheck(running)
       THEN /\ pc' = [pc EXCEPT ![w] = "p_rate"]
            /\ cur_ev' = [cur_ev EXCEPT ![w] = Head(queue).ev]
            /\ UNCHANGED ev_log
       ELSE /\ ev_log' = SetStatus(Head(queue).ev, "dropped")
            /\ UNCHANGED <<pc, cur_ev>>
    /\ UNCHANGED <<running, exec_shutdown, subscribers, filters, event_history,
                   rate_counter, rate_window, window_over, rc, cb_calls, sub_used, shutdowns>>

\* a pool thread takes a callback work item and runs _safe_callback
WorkerRunCallback(w) ==
    /\ pc[w] = "idle"
    /\ queue # <<>>
    /\ Head(queue).kind = "cb"
    /\ queue' = Tail(queue)
    /\ cb_calls' = [cb_calls EXCEPT ![Head(queue).sub] = @ \cup {Head(queue).ev}]
    /\ UNCHANGED <<running, exec_shutdown, subscribers, filters, event_history,
                   rate_counter, rate_window, window_over, pc, cur_ev, rc, ev_log,
                   sub_used, shutdowns>>

\* _check_rate_limit, lines 230-238: the window reset and the test of the counter
RateCheck(t) ==
    /\ pc[t] = "p_rate"
    /\ LET fresh == window_over
           counter == IF fresh THEN 0 ELSE rate_counter
       IN  /\ rate_window' = IF fresh THEN rate_window + 1 ELSE rate_window
           /\ window_over' = FALSE
           /\ rate_counter' = counter
           /\ IF counter >= RateLimit
              THEN /\ ev_log' = SetStatus(cur_ev[t], "rate")
                   /\ pc' = [pc EXCEPT ![t] = "idle"]
                   /\ cur_ev' = [cur_ev EXCEPT ![t] = 0]
                   /\ UNCHANGED rc
              ELSE /\ ev_log' = [ev_log EXCEPT ![cur_ev[t]].stamp = rate_window']
                   /\ pc' = [pc EXCEPT ![t] = "p_inc"]
                   /\ rc' = [rc EXCEPT ![t] = counter]
                   /\ UNCHANGED cur_ev
    /\ UNCHANGED <<running, exec_shutdown, subscribers, filters, event_history,
                   queue, cb_calls, sub_used, shutdowns>>

\* _check_rate_limit, line 240 (an unlocked read-modify-write: it stores one
\* more than the counter as it is now or as this thread last read it), then
\* _apply_filters
RateIncAndFilter(t) ==
    /\ pc[t] = "p_inc"
    /\ \E v \in {rate_counter, rc[t]} : rate_counter' = v + 1
    /\ rc' = [rc EXCEPT ![t] = 0]
    /\ LET veto == \E i \in 1..Len(filters) :
                       FilterResult(filters[i], EvType(cur_ev[t])) = "false"
       IN  IF ApplyFilters(filters, EvType(cur_ev[t]))
           THEN /\ ev_log' = [ev_log EXCEPT ![cur_ev[t]].vetoed = veto]
                /\ pc' = [pc EXCEPT ![t] = "p_append"]
                /\ UNCHANGED cur_ev
           ELSE /\ ev_log' = [ev_log EXCEPT ![cur_ev[t]].vetoed = veto,
                                            ![cur_ev[t]].status = "filtered"]
                /\ pc' = [pc EXCEPT ![t] = "idle"]
                /\ cur_ev' = [cur_ev EXCEPT ![t] = 0]
    /\ UNCHANGED <<running, exec_shutdown, subscribers, filters, event_history,
                   rate_window, window_over, queue, cb_calls, sub_used, shutdowns>>

\* publish, lines 122-123
AppendHistory(t) ==
    /\ pc[t] = "p_append"
    /\ event_history' = HistoryAppend(event_history, cur_ev[t], MaxHistory)
    /\ ev_log' = [ev_log EXCEPT ![cur_ev[t]].status = "accepted",
                                ![cur_ev[t]].seq = AcceptCount + 1]
    /\ pc' = [pc EXCEPT ![t] = "p_notify"]
    /\ UNCHANGED <<running, exec_shutdown, subscribers, filters, rate_counter,
                   rate_window, window_over, queue, cur_ev, rc, cb_calls, sub_used, shutdowns>>

\* _notify_subscribers: executor.submit raises once the executor was shut down
Notify(t) ==
    /\ pc[t] = "p_notify"
    /\ LET snap == Snapshot(subscribers, EvType(cur_ev[t]))
       IN  IF exec_shutdown /\ snap # <<>>
           THEN /\ ev_log' = SetStatus(cur_ev[t], "submit_failed")
                /\ UNCHANGED queue
           ELSE /\ ev_log' = SetStatus(cur_ev[t], "notified")
                /\ queue' = queue \o NotifyTasks(snap, cur_ev[t])
    /\ pc' = [pc EXCEPT ![t] = "idle"]
    /\ cur_ev' = [cur_ev EXCEPT ![t] = 0]
    /\ UNCHANGED <<running, exec_shutdown, subscribers, filters, event_history,
                   rate_counter, rate_window, window_over, rc, cb_calls, sub_used, shutdowns>>

\* shutdown, lines 219-220: stop accepting, then executor.shutdown(wait=True)
ShutdownBegin ==
    /\ pc["main"] = "idle"
    /\ shutdowns < MaxShutdowns
    /\ running' = FALSE
    /\ exec_shutdown' = TRUE
    /\ pc' = [pc EXCEPT !["main"] = "sd_wait"]
    /\ UNCHANGED <<subscribers, filters, event_history, rate_counter, rate_window,
                   window_over, queue, cur_ev, rc, cb_calls, ev_log, sub_used, shutdowns>>

\* shutdown, lines 222-226, once the pool has drained its queue
ShutdownClear ==
    /\ pc["main"] = "sd_wait"
    /\ queue = <<>>
    /\ \A w \in Workers : pc[w] = "idle"
    /\ subscribers' = <<>>
    /\ event_history' = <<>>
    /\ filters' = <<>>
    /\ shutdowns' = shutdowns + 1
    /\ pc' = [pc EXCEPT !["main"] = "idle"]
    /\ UNCHANGED <<running, exec_shutdown, rate_counter, rate_window, window_over, queue,
                   cur_ev, rc, cb_calls, ev_log, sub_used>>

\* shutdown called by a thread other than the publisher's, lines 219-220
CloserShutdownBegin ==
    /\ closer_pc = "idle"
    /\ shutdowns < MaxShutdowns
    /\ running' = FALSE
    /\ exec_shutdown' = TRUE
    /\ closer_pc' = "sd_wait"
    /\ UNCHANGED <<subscribers, filters, event_history, rate_counter, rate_window,
                   window_over, queue, pc, cur_ev, rc, cb_calls, ev_log, sub_used, shutdowns>>

\* the same call, lines 222-226, once the pool has drained its queue
CloserShutdownClear ==
    /\ closer_pc = "sd_wait"
    /\ queue = <<>>
    /\ \A w \in Workers : pc[w] = "idle"
    /\ subscribers' = <<>>
    /\ event_history' = <<>>
    /\ filters' = <<>>
    /\ shutdowns' = shutdowns + 1
    /\ closer_pc' = "idle"
    /\ UNCHANGED <<running, exec_shutdown, rate_counter, rate_window, window_over, queue,
                   pc, cur_ev, rc, cb_calls, ev_log, sub_used>>

CallSeparation ==
    /\ sepOut = None
    /\ sepOut' = pairwise_min_separation_nm(sepIn)
    /\ UNCHANGED sepIn

CallReward ==
    /\ rwOut = NoResult
    /\ rwOut' = compute_reward(rwIn.prev, rwIn.cur, rwIn.min_sep, rwIn.los)
    /\ UNCHANGED rwIn

sepVars == <<sepIn, sepOut>>
rwVars == <<rwIn, rwOut>>
envVars == <<last_states, step_count, alive_mask, stepRet>>
trkVars == <<decisions, decision_count, trk_now, trk_logged, trk_reset, trk_calls,
             max_decisions, trk_subscribed, trk_last>>
busVars == <<running, exec_shutdown, subscribers, filters, event_history, rate_counter,
             rate_window, window_over, queue, pc, cur_ev, rc, cb_calls, ev_log, sub_used,
             shutdowns>>
saVars == <<sa_hist, violations, violation_count, sa_out, sa_event, sa_calls>>
sysVars == <<max_decision_history, sys_initialized, sys_enabled, sys_comp, sys_wired,
            sys_globals, sys_sa_subscribed, sys_persisted, sys_ret, sys_calls>>
wrpVars == <<wrp_queue, wrp_handled, wrp_stored, wrp_steps>>
poolVars == <<pool_registry, pool_used, pool_queue, pool_run, pool_received, pool_stamps,
             pool_gone, pool_ret, pool_late, pool_violation_count, pool_violation_ids>>
clsVars == <<closer_pc>>
schVars == <<scheduler_active, shutdown_event, scheduler_thread, sched_pc, loop_pc,
            loops_started, loop_stopped, loop_late, sched_reports>>
repVars == <<rep_report, rep_alerts, rep_ret>>
metVars == <<met_violations, met_out>>
patVars == <<pat_patterns, pattern_count, pat_ret, pat_detected, pat_calls>>
pipeVars == <<pipe_queue, pipe_count, pipe_publish, pipe_last, pipe_escaped>>
coreVars == <<sepVars, rwVars, envVars, trkVars, busVars, saVars, sysVars>>
patOthers == <<coreVars, pipeVars, metVars, repVars, schVars, clsVars, wrpVars, poolVars>>
metOthers == <<coreVars, pipeVars, patVars, repVars, schVars, clsVars, wrpVars, poolVars>>
repOthers == <<coreVars, pipeVars, patVars, metVars, schVars, clsVars, wrpVars, poolVars>>
schOthers == <<coreVars, pipeVars, patVars, metVars, repVars, clsVars, wrpVars, poolVars>>
clsOthers == <<coreVars, pipeVars, patVars, metVars, repVars, schVars, wrpVars, poolVars>>
wrpOthers == <<coreVars, pipeVars, patVars, metVars, repVars, schVars, clsVars, poolVars>>
poolOthers == <<coreVars, pipeVars, patVars, metVars, repVars, schVars, clsVars, wrpVars>>
extVars == <<pipeVars, patVars, metVars, repVars, schVars, clsVars, wrpVars, poolVars>>
pipeOthers == <<coreVars, patVars, metVars, repVars, schVars, clsVars, wrpVars, poolVars>>
vars == <<coreVars, extVars>>

SepIdle == sepIn = <<>> /\ sepOut = None
RwIdle == rwIn = NoResult /\ rwOut = NoResult
EnvIdle ==
    /\ last_states = NoStates
    /\ step_count = 0
    /\ alive_mask = <<>>
    /\ stepRet = NoResult

TrkIdle ==
    /\ decisions = <<>>
    /\ decision_count = 0
    /\ trk_now = 0
    /\ trk_logged = <<>>
    /\ trk_reset = FALSE
    /\ trk_calls = 0
    /\ max_decisions = MaxDecisions
    /\ trk_subscribed = TRUE
    /\ trk_last = [op |-> "init", kind |-> "ok"]

SaIdle ==
    /\ sa_hist = <<>>
    /\ violations = <<>>
    /\ violation_count = 0
    /\ sa_out = NoResult
    /\ sa_event = "none"
    /\ sa_calls = 0

\* a system object just constructed, everything enabled
SysCreated ==
    /\ sys_initialized = FALSE
    /\ sys_comp = [c \in Comps |-> FALSE]
    /\ sys_wired = <<>>
    /\ sys_globals = {}
    /\ sys_sa_subscribed = FALSE
    /\ sys_persisted = 0
    /\ sys_ret = [op |-> "none", outcome |-> "none", failed |-> {}, prev |-> "none"]
    /\ sys_calls = 0

SysIdle ==
    /\ max_decision_history = DefaultMaxDecisionHistory
    /\ sys_enabled = OptionalComps
    /\ SysCreated

\* no DecisionTracker has been constructed yet
TrkAbsent ==
    /\ decisions = <<>>
    /\ decision_count = 0
    /\ trk_now = 0
    /\ trk_logged = <<>>
    /\ trk_reset = FALSE
    /\ trk_calls = 0
    /\ max_decisions = 0
    /\ trk_subscribed = FALSE
    /\ trk_last = [op |-> "none", kind |-> "ok"]

PatIdle ==
    /\ pat_patterns = <<>>
    /\ pattern_count = 0
    /\ pat_ret = [op |-> "none", patterns |-> <<>>]
    /\ pat_detected = <<>>
    /\ pat_calls = 0

MetIdle ==
    /\ met_violations = <<>>
    /\ met_out = [kind |-> "none"]

ClsIdle == closer_pc = "idle"

PoolIdle ==
    /\ pool_registry = <<>>
    /\ pool_used = {}
    /\ pool_queue = <<>>
    /\ pool_run = [w \in PoolWorkers |-> NoTask]
    /\ pool_received = [s \in PoolSubIds |-> <<>>]
    /\ pool_stamps = <<>>
    /\ pool_gone = {}
    /\ pool_ret = [id |-> "none", ret |-> "none"]
    /\ pool_late = {}
    /\ pool_violation_count = 0
    /\ pool_violation_ids = <<>>

WrpIdle ==
    /\ wrp_queue = <<>>
    /\ wrp_handled = <<>>
    /\ wrp_stored = <<>>
    /\ wrp_steps = 0

SchIdle ==
    /\ scheduler_active = FALSE
    /\ shutdown_event = FALSE
    /\ scheduler_thread = 0
    /\ sched_pc = "idle"
    /\ loop_pc = <<>>
    /\ loops_started = 0
    /\ loop_stopped = {}
    /\ loop_late = {}
    /\ sched_reports = 0

RepIdle ==
    /\ rep_report = [type |-> "none"]
    /\ rep_alerts = <<>>
    /\ rep_ret = "none"

PipeIdle ==
    /\ pipe_queue = <<>>
    /\ pipe_count = 0
    /\ pipe_publish = "none"
    /\ pipe_last = [sub |-> "none", kind |-> "none", outcome |-> "none"]
    /\ pipe_escaped = {}

PipeRestIdle == PatIdle /\ MetIdle /\ RepIdle /\ SchIdle /\ ClsIdle /\ WrpIdle /\ PoolIdle

PatRestIdle == PipeIdle /\ MetIdle /\ RepIdle /\ SchIdle /\ ClsIdle /\ WrpIdle /\ PoolIdle

MetRestIdle == PipeIdle /\ PatIdle /\ RepIdle /\ SchIdle /\ ClsIdle /\ WrpIdle /\ PoolIdle

RepRestIdle == PipeIdle /\ PatIdle /\ MetIdle /\ SchIdle /\ ClsIdle /\ WrpIdle /\ PoolIdle

SchRestIdle == PipeIdle /\ PatIdle /\ MetIdle /\ RepIdle /\ ClsIdle /\ WrpIdle /\ PoolIdle

ClsRestIdle == PipeIdle /\ PatIdle /\ MetIdle /\ RepIdle /\ SchIdle /\ WrpIdle /\ PoolIdle

WrpRestIdle == PipeIdle /\ PatIdle /\ MetIdle /\ RepIdle /\ SchIdle /\ ClsIdle /\ PoolIdle

PoolRestIdle == PipeIdle /\ PatIdle /\ MetIdle /\ RepIdle /\ SchIdle /\ ClsIdle /\ WrpIdle

ExtIdle == PipeIdle /\ PatIdle /\ MetIdle /\ RepIdle /\ SchIdle /\ ClsIdle /\ WrpIdle /\ PoolIdle

BusIdle ==
    /\ running = TRUE
    /\ exec_shutdown = FALSE
    /\ subscribers = <<>>
    /\ filters = <<>>
    /\ event_history = <<>>
    /\ rate_counter = 0
    /\ rate_window = 1
    /\ window_over = FALSE
    /\ queue = <<>>
    /\ pc = [t \in Threads |-> "idle"]
    /\ cur_ev = [t \in Threads |-> 0]
    /\ rc = [t \in Threads |-> 0]
    /\ cb_calls = [s \in SubIds |-> {}]
    /\ ev_log = <<>>
    /\ sub_used = {}
    /\ shutdowns = 0

\* ---- separation geometry on every bounded aircraft list ----
InitSep == sepIn \in SepInputs /\ sepOut = None /\ RwIdle /\ EnvIdle /\ TrkIdle /\ BusIdle /\ SaIdle /\ SysIdle /\ ExtIdle
NextSep == CallSeparation /\ UNCHANGED <<rwVars, envVars, trkVars, busVars, saVars, sysVars, extVars>>
SpecSep == InitSep /\ [][NextSep]_vars

\* ---- separation geometry on the lists that are compared in every order ----
InitSym == sepIn \in SymInputs /\ sepOut = None /\ RwIdle /\ EnvIdle /\ TrkIdle /\ BusIdle /\ SaIdle /\ SysIdle /\ ExtIdle
SpecSym == InitSym /\ [][NextSep]_vars

\* ---- reward engine on every bounded input ----
InitRw == rwIn \in RwInputs /\ rwOut = NoResult /\ SepIdle /\ EnvIdle /\ TrkIdle /\ BusIdle /\ SaIdle /\ SysIdle /\ ExtIdle
NextRw == CallReward /\ UNCHANGED <<sepVars, envVars, trkVars, busVars, saVars, sysVars, extVars>>
SpecRw == InitRw /\ [][NextRw]_vars

\* ---- the environment: reset and step in any order ----
InitEnv == EnvIdle /\ SepIdle /\ RwIdle /\ TrkIdle /\ BusIdle /\ SaIdle /\ SysIdle /\ ExtIdle
NextEnv ==
    \/ EnvReset /\ UNCHANGED <<sepVars, rwVars, trkVars, busVars, saVars, sysVars, extVars>>
    \/ EnvStepUnreset /\ UNCHANGED <<sepVars, rwVars, trkVars, busVars, saVars, sysVars, extVars>>
    \/ EnvStep /\ UNCHANGED <<sepVars, rwVars, trkVars, busVars, saVars, sysVars, extVars>>
SpecEnv == InitEnv /\ [][NextEnv]_vars

\* ---- the decision tracker: direct calls, delivered events, clears ----
InitTrk == TrkIdle /\ SepIdle /\ RwIdle /\ EnvIdle /\ BusIdle /\ SaIdle /\ SysIdle /\ ExtIdle
NextTrk ==
    \/ log_decision /\ UNCHANGED <<sepVars, rwVars, envVars, busVars, saVars, sysVars, extVars>>
    \/ HandlePolicyDecisionEvent /\ UNCHANGED <<sepVars, rwVars, envVars, busVars, saVars, sysVars, extVars>>
    \/ clear_history /\ UNCHANGED <<sepVars, rwVars, envVars, busVars, saVars, sysVars, extVars>>
    \/ load_from_file /\ UNCHANGED <<sepVars, rwVars, envVars, busVars, saVars, sysVars, extVars>>
    \/ tracker_shutdown /\ UNCHANGED <<sepVars, rwVars, envVars, busVars, saVars, sysVars, extVars>>
    \/ TrkTick /\ UNCHANGED <<sepVars, rwVars, envVars, busVars, saVars, sysVars, extVars>>
SpecTrk == InitTrk /\ [][NextTrk]_vars

\* ---- the safety analyzer: violations analysed against any bounded history ----
InitSa ==
    /\ sa_hist \in SaHistories
    /\ violations = <<>> /\ violation_count = 0 /\ sa_out = NoResult
    /\ sa_event = "none" /\ sa_calls = 0
    /\ SepIdle /\ RwIdle /\ EnvIdle /\ TrkIdle /\ BusIdle /\ SysIdle /\ ExtIdle
NextSa ==
    \/ AnalyzeViolationCall /\ UNCHANGED <<sepVars, rwVars, envVars, trkVars, busVars, sysVars, extVars>>
    \/ HandleSafetyViolationEvent
          /\ UNCHANGED <<sepVars, rwVars, envVars, trkVars, busVars, sysVars, extVars>>
SpecSa == InitSa /\ [][NextSa]_vars

\* ---- the safety analyzer's stored violations: events, queries, repeated analyses ----
InitSaLife ==
    /\ sa_hist \in SaHistoriesUpTo(MaxLifeHist)
    /\ violations = <<>> /\ violation_count = 0 /\ sa_out = NoResult
    /\ sa_event = "none" /\ sa_calls = 0
    /\ SepIdle /\ RwIdle /\ EnvIdle /\ TrkIdle /\ BusIdle /\ SysIdle /\ ExtIdle
saOthers == <<sepVars, rwVars, envVars, trkVars, busVars, sysVars, extVars>>
NextSaLife ==
    \/ HandleSafetyViolationEvent /\ UNCHANGED saOthers
    \/ SaClearDecisions /\ UNCHANGED saOthers
    \/ ReanalyzeStored /\ UNCHANGED saOthers
    \/ SaQuery /\ UNCHANGED saOthers
SpecSaLife == InitSaLife /\ [][NextSaLife]_vars

\* ---- the integrated system: created with a history size, then initialized ----
InitSys ==
    /\ max_decision_history \in 1..MaxDecisions
    /\ sys_enabled = OptionalComps
    /\ SysCreated
    /\ TrkAbsent /\ SepIdle /\ RwIdle /\ EnvIdle /\ BusIdle /\ SaIdle /\ ExtIdle
NextSys ==
    \/ SysInitialize({{}}) /\ UNCHANGED <<sepVars, rwVars, envVars, busVars, saVars, extVars>>
    \/ HandlePolicyDecisionEvent /\ UNCHANGED <<sepVars, rwVars, envVars, busVars, saVars, sysVars, extVars>>
    \/ TrkTick /\ UNCHANGED <<sepVars, rwVars, envVars, busVars, saVars, sysVars, extVars>>
SpecSys == InitSys /\ [][NextSys]_vars

\* ---- the integrated system's life cycle: any flags, any failing components ----
InitSysLife ==
    /\ max_decision_history = DefaultMaxDecisionHistory
    /\ sys_enabled \in SUBSET OptionalComps
    /\ SysCreated
    /\ TrkAbsent /\ SepIdle /\ RwIdle /\ EnvIdle /\ BusIdle /\ SaIdle /\ ExtIdle
NextSysLife ==
    \/ SysInitialize(SUBSET Comps)
          /\ UNCHANGED <<sepVars, rwVars, envVars, busVars, saVars, extVars>>
    \/ SysShutdown /\ UNCHANGED <<sepVars, rwVars, envVars, busVars, saVars, extVars>>
SpecSysLife == InitSysLife /\ [][NextSysLife]_vars

CoreIdle == SepIdle /\ RwIdle /\ EnvIdle /\ TrkIdle /\ BusIdle /\ SaIdle /\ SysIdle

\* ---- the safety analyzer's metrics over any stored violations and any window ----
InitMet ==
    /\ met_violations \in MetMixed \cup MetUniform
    /\ met_out = [kind |-> "none"]
    /\ CoreIdle /\ MetRestIdle
NextMet ==
    \/ CalculateSafetyMetricsCall /\ UNCHANGED metOthers
SpecMet == InitMet /\ [][NextMet]_vars

\* ---- the report generator: one report of any kind ----
InitRep == RepIdle /\ CoreIdle /\ RepRestIdle
NextRep ==
    \/ generate_daily_summary /\ UNCHANGED repOthers
    \/ generate_performance_analysis /\ UNCHANGED repOthers
    \/ generate_safety_assessment /\ UNCHANGED repOthers
SpecRep == InitRep /\ [][NextRep]_vars

\* ---- the report generator's alerts: acknowledged and resolved in any order ----
InitAlert ==
    /\ rep_report = [type |-> "none"]
    /\ rep_alerts \in AlertLists
    /\ rep_ret = "none"
    /\ CoreIdle /\ RepRestIdle
NextAlert ==
    \/ acknowledge_alert /\ UNCHANGED repOthers
    \/ resolve_alert /\ UNCHANGED repOthers
SpecAlert == InitAlert /\ [][NextAlert]_vars

\* ---- the report generator: reports of one second, and their alerts ----
NextRepSeq ==
    \/ generate_daily_summary /\ UNCHANGED repOthers
    \/ generate_performance_analysis /\ UNCHANGED repOthers
    \/ generate_safety_assessment /\ UNCHANGED repOthers
    \/ NextReport /\ UNCHANGED repOthers
    \/ acknowledge_alert /\ UNCHANGED repOthers
    \/ resolve_alert /\ UNCHANGED repOthers
SpecRepSeq == InitRep /\ [][NextRepSeq]_vars

\* ---- the daily report scheduler: one calling thread and the scheduler threads ----
InitSch == SchIdle /\ CoreIdle /\ SchRestIdle
NextSch ==
    \/ schedule_daily_reports /\ UNCHANGED schOthers
    \/ StopSchedulerBegin /\ UNCHANGED schOthers
    \/ StopSchedulerJoin /\ UNCHANGED schOthers
    \/ \E t \in 1..Len(loop_pc) : LoopCheck(t) /\ UNCHANGED schOthers
    \/ \E t \in 1..Len(loop_pc) : LoopWaitTimeout(t) /\ UNCHANGED schOthers
    \/ \E t \in 1..Len(loop_pc) : LoopWoken(t) /\ UNCHANGED schOthers
    \/ \E t \in 1..Len(loop_pc) : LoopGenerate(t) /\ UNCHANGED schOthers
SpecSch == InitSch /\ [][NextSch]_vars

\* ---- the env wrapper's safety events and the analyzer that handles them ----
InitWrp == WrpIdle /\ CoreIdle /\ WrpRestIdle
NextWrp ==
    \/ WrapperStep /\ UNCHANGED wrpOthers
    \/ WrapperEventHandled /\ UNCHANGED wrpOthers
SpecWrp == InitWrp /\ [][NextWrp]_vars

\* ---- the executor's worker threads: one recording subscriber ----
InitPool == PoolIdle /\ CoreIdle /\ PoolRestIdle
NextPoolOrd ==
    \/ PoolSubscribe("rec") /\ UNCHANGED poolOthers
    \/ \E s \in {"rec", "san"} : PoolUnsubscribe(s) /\ UNCHANGED poolOthers
    \/ PoolPublish(0..MaxPoolStamp) /\ UNCHANGED poolOthers
    \/ \E w \in PoolWorkers : PoolTake(w) /\ UNCHANGED poolOthers
    \/ \E w \in PoolWorkers : PoolCall(w) /\ UNCHANGED poolOthers
SpecPoolOrd == InitPool /\ [][NextPoolOrd]_vars

\* C34: each subscriber receives the events of one publishing thread in the
\* order they were published.
C34_ReceivedInPublishOrder ==
    \A s \in PoolSubIds : \A i, j \in 1..Len(pool_received[s]) :
        i < j => pool_received[s][i] < pool_received[s][j]

\* a subscriber receives an event at most once, and only a published one
ReceivedOncePublished ==
    \A s \in PoolSubIds : \A i, j \in 1..Len(pool_received[s]) :
        /\ pool_received[s][i] \in 1..Len(pool_stamps)
        /\ i # j => pool_received[s][i] # pool_received[s][j]

\* the work items leave the queue in publish order
TakenInPublishOrder ==
    [][\A w \in PoolWorkers : PoolTake(w) =>
          \A i \in 1..Len(pool_queue') : pool_queue'[i].ev >= pool_run'[w].ev]_vars

\* C35: once unsubscribe(id) has returned True the callback of that
\* subscription is not invoked again, events published before included.
C35_NoCallbackAfterUnsubscribe == pool_late = {}

\* an event published after unsubscribe returned True makes no work item
\* for the removed subscription
NoTaskForRemoved ==
    [][PoolPublish(0..MaxPoolStamp) => \A i \in Len(pool_queue) + 1..Len(pool_queue') :
                          pool_queue'[i].sub \notin pool_gone]_vars

\* unsubscribe of an id that is not registered returns False and leaves
\* the registry as it is
UnknownUnsubscribeReturnsFalse ==
    [][\A s \in PoolSubIds :
          (PoolUnsubscribe(s) /\ \A i \in 1..Len(pool_registry) : pool_registry[i] # s)
              => pool_ret'.ret = "False" /\ pool_registry' = pool_registry]_vars

\* ---- the executor's worker threads: the safety analyzer's handler ----
NextPoolIds ==
    \/ PoolSubscribe("san") /\ UNCHANGED poolOthers
    \/ PoolPublish(0..MaxPoolStamp) /\ UNCHANGED poolOthers
    \/ \E w \in PoolWorkers : PoolTake(w) /\ UNCHANGED poolOthers
    \/ \E w \in PoolWorkers : PoolCall(w) /\ UNCHANGED poolOthers
    \/ \E w \in PoolWorkers : PoolStore(w) /\ UNCHANGED poolOthers
SpecPoolIds == InitPool /\ [][NextPoolIds]_vars

\* C37: the stored violations have pairwise distinct ids.
C37_ViolationIdsDistinct ==
    \A i, j \in 1..Len(pool_violation_ids) :
        i # j => pool_violation_ids[i] # pool_violation_ids[j]

\* every event handled is stored, and the counter is the number stored
ViolationCountIsStored == pool_violation_count = Len(pool_violation_ids)

\* ---- the executor's worker threads: a subscriber that never returns ----
\* every worker thread that can take a step eventually takes it; the events
\* are published within one millisecond
NextPoolLive ==
    \/ \E s \in {"blk", "rec"} : PoolSubscribe(s) /\ UNCHANGED poolOthers
    \/ PoolPublish({0}) /\ UNCHANGED poolOthers
    \/ \E w \in PoolWorkers : PoolTake(w) /\ UNCHANGED poolOthers
    \/ \E w \in PoolWorkers : PoolCall(w) /\ UNCHANGED poolOthers
SpecPoolLive ==
    /\ InitPool
    /\ [][NextPoolLive]_vars
    /\ \A w \in PoolWorkers : /\ WF_vars(PoolTake(w) /\ UNCHANGED poolOthers)
                              /\ WF_vars(PoolCall(w) /\ UNCHANGED poolOthers)

PoolQueued(s, e) == \E i \in 1..Len(pool_queue) : pool_queue[i] = [sub |-> s, ev |-> e]

PoolReceived(s, e) == \E i \in 1..Len(pool_received[s]) : pool_received[s][i] = e

\* C36: every event accepted for a subscriber whose callback returns is
\* eventually delivered to it, however many callbacks are blocked.
C36_NonBlockingEventuallyReceives ==
    \A e \in 1..MaxPoolEvents : PoolQueued("rec", e) ~> PoolReceived("rec", e)

\* the publisher is never held up: publish only appends to the work queue
PublisherNeverWaits ==
    Len(pool_stamps) < MaxPoolEvents => ENABLED PoolPublish({0})

\* while a worker thread is free, what is queued for rec is delivered
DeliveredWhileWorkerFree ==
    \A e \in 1..MaxPoolEvents :
        PoolQueued("rec", e) ~>
            (PoolReceived("rec", e) \/ \A w \in PoolWorkers : pool_run[w].st = "blocked")

\* all worker threads are inside a blocked callback and an event waits for rec
PoolExhausted ==
    /\ \A w \in PoolWorkers : pool_run[w].st = "blocked"
    /\ \E e \in 1..MaxPoolEvents : PoolQueued("rec", e)

\* ---- the pipeline's subscribers: events of every payload kind ----
InitPipe == PipeIdle /\ CoreIdle /\ PipeRestIdle
NextPipe ==
    \/ PipePublish /\ UNCHANGED pipeOthers
    \/ PipeRun /\ UNCHANGED pipeOthers
SpecPipe == InitPipe /\ [][NextPipe]_vars

\* ---- the pattern analyzer: detection calls in any order ----
InitPat == PatIdle /\ CoreIdle /\ PatRestIdle
NextPat ==
    \/ analyze_recent_performance /\ UNCHANGED patOthers
    \/ detect_anomalies /\ UNCHANGED patOthers
SpecPat == InitPat /\ [][NextPat]_vars

\* ---- the event bus: one calling thread and the pool's threads ----
otherVars == <<sepVars, rwVars, envVars, trkVars, saVars, sysVars, extVars>>
InitBus == BusIdle /\ SepIdle /\ RwIdle /\ EnvIdle /\ TrkIdle /\ SaIdle /\ SysIdle /\ ExtIdle
NextBus ==
    \/ \E s \in SubIds : subscribe(s) /\ UNCHANGED otherVars
    \/ \E s \in SubIds : unsubscribe(s) /\ UNCHANGED otherVars
    \/ publish("A") /\ UNCHANGED otherVars
    \/ publish_async("A") /\ UNCHANGED otherVars
    \/ \E w \in Workers : WorkerStartPublish(w) /\ UNCHANGED otherVars
    \/ \E w \in Workers : WorkerRunCallback(w) /\ UNCHANGED otherVars
    \/ \E t \in Threads : RateCheck(t) /\ UNCHANGED otherVars
    \/ \E t \in Threads : RateIncAndFilter(t) /\ UNCHANGED otherVars
    \/ \E t \in Threads : AppendHistory(t) /\ UNCHANGED otherVars
    \/ \E t \in Threads : Notify(t) /\ UNCHANGED otherVars
    \/ ShutdownBegin /\ UNCHANGED otherVars
    \/ ShutdownClear /\ UNCHANGED otherVars
SpecBus == InitBus /\ [][NextBus]_vars

\* ---- the event bus under load: publishers on two threads, the clock running ----
NextBusRate ==
    \/ \E s \in SubIds : subscribe(s) /\ UNCHANGED otherVars
    \/ publish("A") /\ UNCHANGED otherVars
    \/ publish_async("A") /\ UNCHANGED otherVars
    \/ \E w \in Workers : WorkerStartPublish(w) /\ UNCHANGED otherVars
    \/ \E w \in Workers : WorkerRunCallback(w) /\ UNCHANGED otherVars
    \/ \E t \in Threads : RateCheck(t) /\ UNCHANGED otherVars
    \/ \E t \in Threads : RateIncAndFilter(t) /\ UNCHANGED otherVars
    \/ \E t \in Threads : AppendHistory(t) /\ UNCHANGED otherVars
    \/ \E t \in Threads : Notify(t) /\ UNCHANGED otherVars
    \/ BusTick /\ UNCHANGED otherVars
SpecBusRate == InitBus /\ [][NextBusRate]_vars

\* ---- the event bus shut down by one thread while another publishes ----
busOthers == <<sepVars, rwVars, envVars, trkVars, saVars, sysVars, pipeVars, patVars,
              metVars, repVars, schVars, wrpVars, poolVars>>
NextBusStop ==
    \/ \E s \in SubIds : subscribe(s) /\ UNCHANGED otherVars
    \/ publish("A") /\ UNCHANGED otherVars
    \/ publish_async("A") /\ UNCHANGED otherVars
    \/ \E w \in Workers : WorkerStartPublish(w) /\ UNCHANGED otherVars
    \/ \E w \in Workers : WorkerRunCallback(w) /\ UNCHANGED otherVars
    \/ \E t \in Threads : RateCheck(t) /\ UNCHANGED otherVars
    \/ \E t \in Threads : RateIncAndFilter(t) /\ UNCHANGED otherVars
    \/ \E t \in Threads : AppendHistory(t) /\ UNCHANGED otherVars
    \/ \E t \in Threads : Notify(t) /\ UNCHANGED otherVars
    \/ CloserShutdownBegin /\ UNCHANGED busOthers
    \/ CloserShutdownClear /\ UNCHANGED busOthers
SpecBusStop == InitBus /\ [][NextBusStop]_vars

\* ---- the event bus with filters: no unsubscribe, no shutdown, one rate window ----
NextBusFilt ==
    \/ \E s \in SubIds : subscribe(s) /\ UNCHANGED otherVars
    \/ \E f \in FilterIds : add_filter(f) /\ UNCHANGED otherVars
    \/ \E ty \in EventTypes : publish(ty) /\ UNCHANGED otherVars
    \/ \E ty \in EventTypes : publish_async(ty) /\ UNCHANGED otherVars
    \/ \E w \in Workers : WorkerStartPublish(w) /\ UNCHANGED otherVars
    \/ \E w \in Workers : WorkerRunCallback(w) /\ UNCHANGED otherVars
    \/ \E t \in Threads : RateCheck(t) /\ UNCHANGED otherVars
    \/ \E t \in Threads : RateIncAndFilter(t) /\ UNCHANGED otherVars
    \/ \E t \in Threads : AppendHistory(t) /\ UNCHANGED otherVars
    \/ \E t \in Threads : Notify(t) /\ UNCHANGED otherVars
SpecBusFilt == InitBus /\ [][NextBusFilt]_vars

\* =================================================================== claims
Sq(a) == a * a

\* the unordered pairs of live aircraft that violate both minima, stated on the
\* squared horizontal distance in whole NM (5 NM <=> 25 NM^2)
LosPairs(states) ==
    {pr \in SUBSET (1..Len(states)) :
        /\ Cardinality(pr) = 2
        /\ \A i \in pr : states[i].alive
        /\ \E i, j \in pr :
              /\ i # j
              /\ Sq(states[i].x - states[j].x) + Sq(states[i].y - states[j].y) < 25
              /\ Abs(states[i].alt - states[j].alt) < 1000}

\* C2: the loss-of-separation count returned by pairwise_min_separation_nm is
\* the number of unordered pairs of live aircraft whose horizontal distance is
\* below 5 NM and whose vertical distance is below 1000 ft; a pair 1000 ft or
\* more apart vertically is not counted, and no pair is counted twice.
C2_LosConjunction ==
    sepOut # <<>> => sepOut[2] = Cardinality(LosPairs(sepIn))

\* a list with a counted pair and a live pair that is horizontally closer than
\* 5 NM but exactly 1000 ft apart, which is not counted
C2_Witness ==
    /\ sepOut # <<>>
    /\ sepOut[2] = 1
    /\ \E i, j \in 1..Len(sepIn) :
          /\ i < j
          /\ sepIn[i].alive /\ sepIn[j].alive
          /\ sepIn[i].x = sepIn[j].x /\ sepIn[i].y = sepIn[j].y
          /\ Abs(sepIn[i].alt - sepIn[j].alt) = 1000

\* C3: compute_reward returns a scalar in [-20, +5]: +5 when the raw sum of the
\* returned components is above +5, -20 when it is below -20, the raw sum
\* otherwise; the returned components are the unclipped values (the los
\* component is -10 per loss of separation, the terminal component +5 per
\* aircraft that left within 5 NM of its goal).
C3_RewardClipping ==
    rwOut # NoResult =>
        LET raw == rwOut.comps.los + rwOut.comps.near + rwOut.comps.progress
                   + rwOut.comps.smooth + rwOut.comps.fuel + rwOut.comps.terminal
                   + rwOut.comps.catastrophe
            n == Min2(Len(rwIn.prev), Len(rwIn.cur))
            exits == {i \in 1..n :
                         /\ rwIn.prev[i].alive /\ ~rwIn.cur[i].alive
                         /\ Sq(rwIn.cur[i].gx - rwIn.cur[i].x)
                            + Sq(rwIn.cur[i].gy - rwIn.cur[i].y) < 25}
        IN  /\ rwOut.r >= 0 - 200000 /\ rwOut.r <= 50000
            /\ raw > 50000 => rwOut.r = 50000
            /\ raw < 0 - 200000 => rwOut.r = 0 - 200000
            /\ (raw >= 0 - 200000 /\ raw <= 50000) => rwOut.r = raw
            /\ rwOut.comps.los = (0 - 100000) * rwIn.los
            /\ rwOut.comps.terminal = 50000 * Cardinality(exits)

\* a call whose raw sum is below -20 and is clipped, the los component staying
\* at its unclipped -30
C3_Witness ==
    /\ rwOut # NoResult
    /\ rwOut.r = 0 - 200000
    /\ rwOut.comps.los = 0 - 300000

\* a call whose raw sum (two exit bonuses) is above +5 and is clipped
C3_WitnessHigh ==
    /\ rwOut # NoResult
    /\ rwOut.r = 50000
    /\ rwOut.comps.terminal = 100000

\* C10: step returns terminated = True exactly when that step's catastrophe
\* component is negative (two or more pairs in loss of separation) or no
\* aircraft is alive after the step.
C10_TerminatedIff ==
    stepRet.kind = "step" =>
        /\ stepRet.terminated <=>
              \/ stepRet.r_components.catastrophe < 0
              \/ \A i \in 1..Len(last_states.list) : ~last_states.list[i].alive
        /\ stepRet.r_components.catastrophe < 0 <=>
              Cardinality(LosPairs(last_states.list)) >= 2

\* a step that terminates the episode because the last aircraft left, with no
\* catastrophe
C10_Witness ==
    /\ stepRet.kind = "step"
    /\ stepRet.terminated
    /\ stepRet.r_components.catastrophe = 0
    /\ stepRet.num_alive = 0

\* C12: the catastrophe component returned by compute_reward is -10 when
\* los_count >= 2 and 0 otherwise; in particular it is 0 for los_count = 1 and
\* -10 for los_count = 2.
C12_CatastropheThreshold ==
    rwOut # NoResult =>
        rwOut.comps.catastrophe = IF rwIn.los >= 2 THEN 0 - 100000 ELSE 0

\* the boundary call: exactly two losses of separation, the penalty applied
C12_Witness ==
    /\ rwOut # NoResult
    /\ rwIn.los = 2
    /\ rwOut.comps.catastrophe = 0 - 100000
    /\ rwOut.comps.los = 0 - 200000

\* the call just below the boundary: one loss of separation, no penalty
C12_WitnessOne ==
    /\ rwOut # NoResult
    /\ rwIn.los = 1
    /\ rwOut.comps.catastrophe = 0

Perms(n) == {f \in [1..n -> 1..n] : \A i, j \in 1..n : f[i] = f[j] => i = j}

Reordered(states, f) == [i \in 1..Len(states) |-> states[f[i]]]

\* C13: pairwise_min_separation_nm returns the same minimum separation and the
\* same loss-of-separation count for every reordering of the aircraft list (for
\* two aircraft: for (A, B) and (B, A)).
C13_SeparationSymmetry ==
    sepOut # <<>> =>
        \A f \in Perms(Len(sepIn)) :
            pairwise_min_separation_nm(Reordered(sepIn, f)) = sepOut

\* three live aircraft at different places and levels, one pair of them in loss
\* of separation and the minimum separation 3 NM
C13_Witness ==
    /\ sepOut = <<300, 1>>
    /\ Len(sepIn) = 3
    /\ \A i \in 1..3 : sepIn[i].alive
    /\ sepIn[1].alt > sepIn[2].alt
    /\ sepIn[1].x # sepIn[2].x
    /\ sepIn[2].y # sepIn[3].y

\* C11: reset leaves the step counter at 0, every step call adds exactly one to
\* it, and a step returns truncated = True exactly when the counter it reports
\* has reached the horizon, whatever terminated is.
C11_StepCounterTruncation ==
    [][/\ stepRet'.kind = "reset" => step_count' = 0
       /\ stepRet'.kind \in {"step", "raise"} => step_count' = step_count + 1
       /\ stepRet'.kind = "step" =>
              /\ stepRet'.step_count = step_count'
              /\ stepRet'.truncated <=> (step_count' >= Horizon)]_vars

\* the step that reaches the horizon also ends the episode because the last
\* aircraft left: both flags are True, and no earlier step was truncated
C11_Witness ==
    /\ stepRet.kind = "step"
    /\ step_count = Horizon
    /\ stepRet.truncated
    /\ stepRet.terminated
    /\ stepRet.r_components.catastrophe = 0

\* C38: after a step that returned terminated or truncated, a further step
\* call without a reset in between leaves the step counter and the
\* simulation's states as they were.
C38_NoStepAfterEpisodeEnd ==
    [][(/\ stepRet.kind = "step"
        /\ stepRet.terminated \/ stepRet.truncated
        /\ stepRet'.kind = "step")
           => step_count' = step_count /\ last_states' = last_states]_vars

\* the episode has ended and the step counter has gone past the horizon
SteppedPastHorizon ==
    /\ stepRet.kind = "step"
    /\ stepRet.truncated
    /\ step_count > Horizon

\* once past the horizon every further step reports truncated again
TruncatedStaysTruncated ==
    [][(stepRet.kind = "step" /\ stepRet.truncated /\ stepRet'.kind = "step")
           => stepRet'.truncated]_vars

\* C4: with capacity C, once C + K decisions have been logged (K >= 0, by
\* log_decision or by policy-decision events, with no clear_history and no
\* load_from_file between)
\* the buffer holds exactly C records, they are the C most recently logged
\* ones in logging order, and get_decision_by_id finds none of the K oldest.
C4_TrackerEviction ==
    (~trk_reset /\ Len(trk_logged) >= MaxDecisions) =>
        /\ Len(decisions) = MaxDecisions
        /\ [i \in 1..Len(decisions) |-> decisions[i].decision_id]
              = LastN(trk_logged, MaxDecisions)
        /\ \A i \in 1..(Len(trk_logged) - MaxDecisions) :
              get_decision_by_id(decisions, trk_logged[i]) = NoResult

\* capacity + 2 decisions logged, by a call and by an event, the oldest evicted
C4_Witness ==
    /\ ~trk_reset
    /\ Len(trk_logged) = MaxDecisions + 2
    /\ get_decision_by_id(decisions, trk_logged[1]) = NoResult
    /\ \E i, j \in 1..Len(decisions) :
          decisions[i].source = "call" /\ decisions[j].source = "event"

C17_TotalMonotonic ==
    [][TotalDecisions(decisions', decision_count')
          >= TotalDecisions(decisions, decision_count)]_vars

\* C19: get_decision_history(limit) returns min(limit, occupancy) records (all
\* of them for limit = None), the i-th returned record being the i-th most
\* recently stored one; as long as the buffer was neither cleared nor loaded
\* from a file these are the most recently logged decisions, newest first.
C19_HistoryMostRecentFirst ==
    /\ get_decision_history(decisions, NoLimit)
          = get_decision_history(decisions, Len(decisions))
    /\ \A limit \in 0..(MaxDecisions + 1) :
          LET r == get_decision_history(decisions, limit)
              k == IF limit < Len(decisions) THEN limit ELSE Len(decisions)
          IN  /\ Len(r) = k
              /\ \A i \in 1..k :
                     /\ r[i] = decisions[Len(decisions) - i + 1]
                     /\ ~trk_reset =>
                            r[i].decision_id = trk_logged[Len(trk_logged) - i + 1]

\* the buffer has overflowed by one: a query with limit 2 returns the last two
\* logged decisions, the newest first, and not the evicted one
C19_Witness ==
    /\ ~trk_reset
    /\ Len(trk_logged) = MaxDecisions + 1
    /\ Len(decisions) = MaxDecisions
    /\ LET r == get_decision_history(decisions, 2)
       IN  /\ Len(r) = 2
           /\ r[1].decision_id = trk_logged[Len(trk_logged)]
           /\ r[2].decision_id = trk_logged[Len(trk_logged) - 1]
           /\ r[1].decision_id # r[2].decision_id

HeuristicLabels(decs) ==
    {l \in {"erratic_control", "low_confidence", "delayed_response", "conflicting_objectives"} :
        \/ l = "erratic_control" /\ Erratic(Recent(decs))
        \/ l = "low_confidence" /\ LowConfidence(Recent(decs))
        \/ l = "delayed_response" /\ DelayedResponse(decs)
        \/ l = "conflicting_objectives" /\ Conflicting(Recent(decs))}

CausesOf(v) == {v.root_causes[i] : i \in 1..Len(v.root_causes)}

\* C15 as stated: after analyze_violation the root causes are never empty, and
\* whenever none of the four heuristics applies they are the generic complex
\* multi-factor finding.
C15_GenericWhenNoHeuristic ==
    sa_out.kind = "analysed"
        => /\ sa_out.v.root_causes # <<>>
           /\ HeuristicLabels(GetRelevantDecisions(sa_hist)) = {}
                 => sa_out.v.root_causes = <<"complex_multi_factor">>

\* C15, amended: after analyze_violation the root causes are never empty. With
\* no decision in the lookback window they are the insufficient-history
\* finding; otherwise they are the findings of the heuristics that apply, and
\* the generic complex multi-factor finding exactly when none applies.
C15_RootCausesNeverEmpty ==
    sa_out.kind = "analysed"
        => LET decs == GetRelevantDecisions(sa_hist)
               found == sa_out.v.root_causes
           IN  /\ found # <<>>
               /\ decs = <<>> => found = <<"insufficient_history">>
               /\ (decs # <<>> /\ HeuristicLabels(decs) = {})
                     => found = <<"complex_multi_factor">>
               /\ (decs # <<>> /\ HeuristicLabels(decs) # {})
                     => /\ CausesOf(sa_out.v) = HeuristicLabels(decs)
                        /\ Len(found) = Cardinality(HeuristicLabels(decs))

\* a violation analysed against relevant decisions to which no heuristic applies
C15_Witness ==
    /\ sa_out.kind = "analysed"
    /\ Len(GetRelevantDecisions(sa_hist)) = MaxSaHist
    /\ HeuristicLabels(GetRelevantDecisions(sa_hist)) = {}
    /\ sa_out.v.root_causes = <<"complex_multi_factor">>

\* two heuristics apply at once
C15_WitnessHeuristics ==
    /\ sa_out.kind = "analysed"
    /\ sa_out.v.root_causes = <<"erratic_control", "conflicting_objectives">>

\* C25: the analysis fields of a violation that is stored in the history are
\* never changed by a later operation.
C25_StoredAnalysisFrozen ==
    [][\A i \in 1..Len(violations) : \A j \in 1..Len(violations') :
          violations'[j].id = violations[i].id
             => /\ violations'[j].root_causes = violations[i].root_causes
                /\ violations'[j].contributing = violations[i].contributing]_vars

\* the same, for every operation but a repeated analyze_violation
StoredAnalysisFrozenUnlessReanalyzed ==
    [][ReanalyzeStored
       \/ \A i \in 1..Len(violations) : \A j \in 1..Len(violations') :
             violations'[j].id = violations[i].id => violations'[j] = violations[i]]_vars

\* ---- safety metrics ----
\* the penalty of the violations inside the window of the last metrics call
MetPenalty ==
    LET inwin(sev) == Len(SelectSeq(met_violations, LAMBDA v :
                          /\ v.severity = sev
                          /\ met_out.start_time <= v.timestamp
                          /\ v.timestamp <= met_out.end_time))
    IN  20 * inwin("critical") + 10 * inwin("high") + 5 * inwin("medium") + 2 * inwin("low")

\* C26 as stated: the score is max(0, 100 - P / H) for the elapsed hours H of
\* the window, and lies in [0, 100].
C26_ScoreIsPenaltyPerHour ==
    met_out.kind = "metrics" =>
        LET score == met_out.safety_score
            ticks == met_out.duration
        IN  /\ 0 <= score.num /\ score.num <= 100 * score.den
            /\ ticks > 0
                 => score.num * ticks
                       = Max2(0, 100 * ticks - MetPenalty * TicksPerHour) * score.den

\* C26: the score is max(0, 100 - P / max(H, 1)) for a window of H > 0 hours,
\* P being the sum of the severity penalties (critical 20, high 10, medium 5,
\* low 2) of the violations in the window; it is 100 for a window of no or
\* negative length; it always lies in [0, 100].
C26_ScoreIsPenaltyPerHourAtLeastOne ==
    met_out.kind = "metrics" =>
        LET score == met_out.safety_score
            ticks == met_out.duration
            div == IF ticks > TicksPerHour THEN ticks ELSE TicksPerHour
        IN  /\ 0 <= score.num /\ score.num <= 100 * score.den
            /\ ticks > 0
                 => score.num * div
                       = Max2(0, 100 * div - MetPenalty * TicksPerHour) * score.den
            /\ ticks <= 0 => score.num = 100 * score.den

\* metrics over a window of half an hour that holds one critical violation:
\* the score is 80
C26_Witness ==
    /\ met_out.kind = "metrics"
    /\ met_out.duration = 1
    /\ met_out.total_violations = 1
    /\ MetPenalty = 20
    /\ met_out.safety_score.num = 80 * met_out.safety_score.den

\* the stored violations with every severity replaced by critical
CriticalTwin == [i \in 1..Len(met_violations) |-> [met_violations[i] EXCEPT !.severity = "critical"]]

AllLowInWindow ==
    /\ met_out.kind = "metrics"
    /\ met_out.total_violations > 0
    /\ \A i \in 1..Len(met_violations) : met_violations[i].severity = "low"

\* a / b > c / d for fractions with positive denominators
FracGreater(x, y) == x.num * y.den > y.num * x.den

C27_WitnessFloored ==
    /\ AllLowInWindow
    /\ met_out.duration = TicksPerHour
    /\ met_out.total_violations = 50
    /\ met_out.safety_score.num = 0

\* ---- report generator ----
AssessmentRank(a) ==
    IF a = "excellent" THEN 3 ELSE IF a = "good" THEN 2 ELSE IF a = "concerning" THEN 1 ELSE 0

NoBetterThanBand ==
    LET band == IF rep_report.score >= 90 THEN 3
                ELSE IF rep_report.score >= 80 THEN 2
                ELSE IF rep_report.score >= 70 THEN 1 ELSE 0
    IN  AssessmentRank(rep_report.overall_assessment) <= band

HasCriticalPattern ==
    \E i \in 1..Len(rep_report.patterns) : rep_report.patterns[i] = "critical"

\* C28 as stated: the overall assessment of a report is never better than the
\* band of its safety score, and with a critical behavior pattern in the
\* report it is concerning or critical.
C28_AssessmentFollowsBandAndPatterns ==
    rep_report.type # "none" =>
        /\ rep_report.has_score => NoBetterThanBand
        /\ HasCriticalPattern => rep_report.overall_assessment \in {"concerning", "critical"}

\* C28: the overall assessment of a daily summary is never better than the
\* band of its safety score (>= 90 excellent, >= 80 good, >= 70 concerning,
\* otherwise critical), and with a critical behavior pattern it is concerning
\* or critical; the assessment of a safety assessment report is never better
\* than that band either.
C28_DailyAssessmentFollowsBandAndPatterns ==
    /\ rep_report.type = "daily_summary" =>
          /\ NoBetterThanBand
          /\ HasCriticalPattern => rep_report.overall_assessment \in {"concerning", "critical"}
    /\ rep_report.type = "safety_assessment" => NoBetterThanBand

\* a daily summary with a safety score of 95 and one critical pattern
C28_Witness ==
    /\ rep_report.type = "daily_summary"
    /\ rep_report.score = 95
    /\ rep_report.patterns = <<"critical">>
    /\ rep_report.overall_assessment = "concerning"

\* a performance analysis that holds a critical pattern and is assessed good
PerformanceGoodWithCritical ==
    /\ rep_report.type = "performance_analysis"
    /\ HasCriticalPattern
    /\ rep_report.overall_assessment = "good"

\* the alerts differ at most in the named fields
SameBut(before, after, ack, res) ==
    /\ Len(after) = Len(before)
    /\ \A i \in 1..Len(before) :
          /\ after[i].alert_id = before[i].alert_id
          /\ ack \/ after[i].acknowledged = before[i].acknowledged
          /\ res \/ /\ after[i].resolved = before[i].resolved
                    /\ after[i].resolution_notes = before[i].resolution_notes

\* acknowledge_alert changes only the acknowledged flag and changes nothing
\* when the alert is acknowledged already
AcknowledgeFrame ==
    [][\A alert_id \in CallIds :
          AcknowledgeAlert(alert_id) =>
             /\ SameBut(rep_alerts, rep_alerts', TRUE, FALSE)
             /\ LET i == FirstAlert(rep_alerts, alert_id)
                IN  (i # 0 /\ rep_alerts[i].acknowledged) => rep_alerts' = rep_alerts]_vars

\* resolve_alert changes only the resolved flag and the resolution notes
ResolveFrame ==
    [][\A alert_id \in CallIds : \A resolution_notes \in ResolutionNotes :
          ResolveAlert(alert_id, resolution_notes)
             => SameBut(rep_alerts, rep_alerts', FALSE, TRUE)]_vars

\* C29: acknowledge_alert changes only the acknowledged flag, resolve_alert
\* only the resolution state, and either call on an alert it was applied to
\* before, with any arguments, leaves every alert as it was.
C29_AcknowledgeResolveIdempotent ==
    [][\A alert_id \in CallIds :
          LET i == FirstAlert(rep_alerts, alert_id)
          IN  /\ AcknowledgeAlert(alert_id) =>
                    /\ SameBut(rep_alerts, rep_alerts', TRUE, FALSE)
                    /\ (i # 0 /\ rep_alerts[i].acknowledged) => rep_alerts' = rep_alerts
              /\ \A resolution_notes \in ResolutionNotes :
                    ResolveAlert(alert_id, resolution_notes) =>
                       /\ SameBut(rep_alerts, rep_alerts', FALSE, TRUE)
                       /\ (i # 0 /\ rep_alerts[i].resolved) => rep_alerts' = rep_alerts]_vars

\* C39: the alerts of the generator's alert list have pairwise distinct ids.
C39_AlertIdsDistinct ==
    \A i, j \in 1..Len(rep_alerts) :
        i # j => rep_alerts[i].alert_id # rep_alerts[j].alert_id

\* an alert behind another one with its id is changed by no call
ShadowedAlertUnchanged ==
    [][\A i \in 1..Len(rep_alerts) :
          FirstAlert(rep_alerts, rep_alerts[i].alert_id) # i
              => rep_alerts'[i] = rep_alerts[i]]_vars

\* an active alert behind a resolved one with its id: no id resolves it
ActiveAlertOutOfReach ==
    \E i \in 1..Len(rep_alerts) :
        LET f == FirstAlert(rep_alerts, rep_alerts[i].alert_id)
        IN  f # i /\ rep_alerts[f].resolved /\ ~rep_alerts[i].resolved

\* the alerts that one report adds have distinct ids
OneReportDistinctIds ==
    rep_report.type # "none" =>
        \A i, j \in 1..Len(rep_report.alerts) :
            i # j => rep_report.alerts[i].alert_id # rep_report.alerts[j].alert_id

\* ---- daily report scheduler ----
\* C30: a scheduler loop that stop_scheduler was called for never goes back
\* into its wait for the next report time and begins no further report,
\* whether or not scheduling is started again.
C30_StoppedLoopGeneratesNoReport ==
    /\ loop_late = {}
    /\ \A t \in loop_stopped : loop_pc[t] # "waiting"

\* a stopped loop goes on only when scheduling was started again after its stop
StoppedLoopQuietUntilRestart ==
    \A t \in loop_stopped :
        (loop_pc[t] = "waiting" \/ t \in loop_late) => t < loops_started

\* a loop that was inside its wait when stop_scheduler was called ends without
\* a further report
WokenLoopEnds ==
    [][\A t \in 1..Len(loop_pc) :
          loop_pc[t] \in {"woken", "done"} => loop_pc'[t] \in {"woken", "done"}]_vars

\* ---- event bus, shutdown from a second thread ----
\* C31: no publish call raises to its caller, also when shutdown runs on
\* another thread: every event is dropped without a trace or recorded in the
\* history and handed to the pool for every subscriber.
C31_PublishNeverRaises ==
    \A e \in 1..Len(ev_log) : ev_log[e].status # "submit_failed"

\* a publish call on the caller's own thread got the executor's RuntimeError
SyncPublishRaised ==
    \E e \in 1..Len(ev_log) : ev_log[e].via = "sync" /\ ev_log[e].status = "submit_failed"

\* without a shutdown no publish call raises
NoRaiseWhileRunning ==
    running => \A e \in 1..Len(ev_log) : ev_log[e].status # "submit_failed"

\* ---- env wrapper ----
\* C32: every safety-violation event of the wrapper that the analyzer has
\* handled was accepted and stored in the analyzer's history.
C32_WrapperEventsStored ==
    \A i \in 1..Len(wrp_handled) : wrp_handled[i].stored

\* none of the wrapper's events is ever stored
NoWrapperEventStored == wrp_stored = <<>>

\* ---- integrated system ----
\* C18: once a system created with max_decision_history = N is initialized, its
\* decision tracker holds at most N records, and they are the latest ones.
C18_HistoryBoundedByN ==
    sys_initialized
        => /\ Len(decisions) <= max_decision_history
           /\ Len(decisions) <= Len(trk_logged)
           /\ \A i \in 1..Len(decisions) :
                  decisions[i].decision_id
                     = trk_logged[Len(trk_logged) - Len(decisions) + i]

\* C22: when initialize runs on a system that is not initialized and the
\* construction of some components raises, the call returns, the references of
\* the failed components are None, every other enabled component is present,
\* the components present are wired, and the system is initialized.
C22_InitializeDegrades ==
    [][(sys_calls' = sys_calls + 1 /\ sys_ret'.op = "initialize" /\ ~sys_initialized)
          => /\ sys_ret'.outcome = "returned"
             /\ sys_initialized'
             /\ \A c \in Comps :
                   /\ c \in sys_ret'.failed => ~sys_comp'[c]
                   /\ (c \notin sys_ret'.failed /\ (c \in OptionalComps => c \in sys_enabled))
                         => sys_comp'[c]
             /\ LET added == SubSeq(sys_wired', Len(sys_wired) + 1, Len(sys_wired'))
                    wanted == {"broadcast_env_step", "broadcast_policy_decision",
                               "broadcast_safety_violation"}
                                 \cup (IF sys_comp'["viz"]
                                       THEN {"env_step_for_visualization"} ELSE {})
                                 \cup (IF sys_comp'["monitor"]
                                       THEN {"training_iteration"} ELSE {})
                                 \cup (IF sys_comp'["reasoning"]
                                       THEN {"episode_end"} ELSE {})
                IN  /\ {added[i] : i \in 1..Len(added)} = wanted
                    /\ Len(added) = Cardinality(wanted)]_vars

\* the tracker and the WebSocket server failed to build: the other four are
\* present and wired
C22_Witness ==
    /\ sys_ret.op = "initialize"
    /\ sys_ret.failed = {"tracker", "websocket"}
    /\ sys_initialized
    /\ ~sys_comp["tracker"] /\ ~sys_comp["websocket"]
    /\ sys_comp["viz"] /\ sys_comp["reasoning"] /\ sys_comp["monitor"] /\ sys_comp["inspector"]
    /\ Len(sys_wired) = 6

C33_ReinitializeSubscribesAgain ==
    (sys_ret.op = "initialize" /\ sys_ret.outcome = "returned" /\ sys_ret.prev = "shutdown")
        => /\ sys_comp["tracker"] => trk_subscribed
           /\ sys_comp["reasoning"] => sys_sa_subscribed

\* the first initialize() of a process leaves both subscribed
FirstInitializeSubscribes ==
    (sys_ret.op = "initialize" /\ sys_ret.outcome = "returned" /\ sys_ret.prev = "none")
        => /\ sys_comp["tracker"] => trk_subscribed
           /\ sys_comp["reasoning"] => sys_sa_subscribed

\* C40: when shutdown() has returned, none of the handlers the system
\* subscribed in _wire_components is registered on the bus any more.
C40_ShutdownUnwiresHandlers ==
    (sys_ret.op = "shutdown" /\ sys_ret.outcome = "returned") => sys_wired = <<>>

\* shutdown leaves the system's subscriptions as they are
ShutdownKeepsWiring ==
    [][sys_ret'.op = "shutdown" => sys_wired' = sys_wired]_vars

\* initialize after a shutdown: the handlers of both initialize calls are
\* registered (one call subscribes six at most)
WiringGrewOverCycles ==
    /\ sys_ret.op = "initialize"
    /\ sys_ret.prev = "shutdown"
    /\ Len(sys_wired) > 6

\* ---- pattern analyzer ----
\* the history holds the latest patterns found by analyze_recent_performance
PatHistoryHoldsAnalyzed ==
    LET analyzed == SelectSeq(pat_detected, LAMBDA q : q.by = "analyze")
    IN  /\ Len(pat_patterns) <= PatCapacity
        /\ pat_patterns = LastN(analyzed, Min2(PatCapacity, Len(analyzed)))

\* C24: every pattern detected by a detection call was returned by that call and
\* appended to the pattern history, which holds at most its capacity, the
\* oldest patterns being evicted first.
C24_DetectedStoredAndReturned ==
    /\ Len(pat_patterns) <= PatCapacity
    /\ pat_patterns = LastN(pat_detected, Min2(PatCapacity, Len(pat_detected)))
    /\ pat_ret.patterns
          = LastN(pat_detected, Len(pat_ret.patterns))

\* ---- the pipeline's subscribers ----
\* C21: whatever the payload of an event, no handler of the analysis pipeline
\* lets an exception past the subscriber boundary, and the publish call that
\* carried the event returned normally.
C21_NoEscapePastSubscriber ==
    /\ pipe_escaped = {}
    /\ pipe_publish \in {"none", "returned"}
    /\ pipe_last.outcome \in {"none", "handled", "swallowed"}

\* a safety-violation event with an unknown severity string was handled: the
\* analyzer's body raised and the handler swallowed it
C21_Witness ==
    /\ pipe_last = [sub |-> "safety", kind |-> "bad_enum", outcome |-> "swallowed"]
    /\ pipe_publish = "returned"
    /\ pipe_escaped = {}

\* ---- event bus ----
\* the events appended to the history so far, in the order of their appends
AcceptedSeq == [i \in 1..AcceptCount |-> CHOOSE e \in 1..Len(ev_log) : ev_log[e].seq = i]

\* the history holds at most max_history events: the latest accepted ones, in
\* acceptance order
HistoryHoldsLatest ==
    /\ Len(event_history) <= MaxHistory
    /\ event_history = LastN(AcceptedSeq, Min2(MaxHistory, Len(AcceptedSeq)))

\* C20: the history holds at most max_history events, exactly the most recently
\* accepted ones in acceptance order, and get_event_history(event_type, limit)
\* returns the last `limit` of those whose type matches.
C20_HistoryQuery ==
    /\ HistoryHoldsLatest
    /\ \A etype \in EventTypes \cup {"none"} : \A limit \in 0..(MaxHistory + 1) :
          LET typed == SelectSeq(event_history,
                                 LAMBDA e : etype = "none" \/ ev_log[e].type = etype)
          IN  get_event_history(event_history, etype, limit)
                 = LastN(typed, Min2(limit, Len(typed)))

\* an event was evicted: two appended, the later one held
HistoryEvicted ==
    /\ AcceptCount = MaxHistory + 1
    /\ event_history = <<AcceptedSeq[AcceptCount]>>

\* the same query contract for the limits of at least one
HistoryQueryPositiveLimit ==
    \A etype \in EventTypes \cup {"none"} : \A limit \in 1..(MaxHistory + 1) :
        LET typed == SelectSeq(event_history,
                               LAMBDA e : etype = "none" \/ ev_log[e].type = etype)
        IN  get_event_history(event_history, etype, limit)
               = LastN(typed, Min2(limit, Len(typed)))

Events == 1..Len(ev_log)

Delivered(s, e) == e \in cb_calls[s]

Pending(s, e) ==
    \E i \in 1..Len(queue) :
        queue[i].kind = "cb" /\ queue[i].sub = s /\ queue[i].ev = e

InHistory(e) == \E i \in 1..Len(event_history) : event_history[i] = e

Returned(e) == \A t \in Threads : cur_ev[t] # e

Quiescent == queue = <<>> /\ \A w \in Workers : pc[w] = "idle"

\* C1: for every event published with publish() that was neither dropped by the
\* rate limit nor filtered, every non-raising subscriber registered for its type
\* when publish was called has been invoked with it or has its callback queued
\* on the pool, whatever the raising subscribers of that type do; so once the
\* pool is drained a recording subscriber has received every such event.
C1_FanOutIsolation ==
    \A e \in Events :
        (/\ ev_log[e].via = "sync"
         /\ Returned(e)
         /\ ev_log[e].status \notin {"rate", "filtered", "norun"}) =>
            \A s \in ev_log[e].reg :
                ~Raises(s) => (Delivered(s, e) \/ Pending(s, e))

\* both published events went to the raising subscriber s1, registered first,
\* and to the recording subscriber s2
C1_Witness ==
    /\ Len(ev_log) = 2
    /\ subscribers = <<"s1", "s2">>
    /\ \A e \in Events :
          /\ ev_log[e].via = "sync"
          /\ Delivered("s1", e)
          /\ Delivered("s2", e)

\* C5: of the events whose rate check fell into one one-second window, at most
\* rate_limit_per_second are accepted (recorded in the history and fanned out),
\* also when they are published from several threads at once.
C5_RateLimitBound ==
    \A w \in 1..(MaxEvents + 1) :
        Cardinality({e \in Events :
                        /\ ev_log[e].stamp = w
                        /\ ev_log[e].status \in {"accepted", "notified", "submit_failed"}})
            <= RateLimit

\* C6: once the pool is drained, every event handed to publish_async while the
\* bus was running, and neither rate-limited nor filtered, has been delivered to
\* every subscriber that was registered for its type when publish_async was
\* called.
C6_AsyncDeliveredToRegistered ==
    Quiescent =>
        \A e \in Events :
            (/\ ev_log[e].via = "async"
             /\ ev_log[e].status \notin {"called", "accepted", "rate", "filtered", "norun"}) =>
                \A s \in ev_log[e].reg : Delivered(s, e)

\* C7: a callback is only ever queued or invoked for a subscriber that was
\* registered when publish / publish_async was called for the event.
C7_NoRetroactiveDelivery ==
    \A e \in Events : \A s \in SubIds :
        (Delivered(s, e) \/ Pending(s, e)) => s \in ev_log[e].reg

\* C8: an event for which a filter registered when _apply_filters ran returned
\* False is never appended to the history and never queued for or delivered to
\* any subscriber.
C8_FilterVeto ==
    \A e \in Events :
        ev_log[e].vetoed =>
            /\ ev_log[e].status \notin {"accepted", "notified", "submit_failed"}
            /\ ~InHistory(e)
            /\ \A s \in SubIds : ~Delivered(s, e) /\ ~Pending(s, e)

\* an event of type B vetoed by f_noB although the raising filter comes first,
\* and an event of type A that passed both filters and was delivered
C8_Witness ==
    /\ filters = <<"f_raise", "f_noB">>
    /\ \E e \in Events : ev_log[e].vetoed /\ ev_log[e].status = "filtered"
    /\ \E e \in Events : ~ev_log[e].vetoed /\ Delivered("s2", e)

\* C9: every shutdown call returns with the subscriber registry and the event
\* history empty, the first call and the later ones alike; a publish or
\* publish_async call made after a shutdown has returned changes nothing on the
\* bus and returns at once.
C9_ShutdownIdempotent ==
    [][/\ (shutdowns' # shutdowns) =>
              (subscribers' = <<>> /\ event_history' = <<>> /\ pc'["main"] = "idle")
       /\ (shutdowns > 0 /\ Len(ev_log') > Len(ev_log)) =>
              /\ UNCHANGED <<running, exec_shutdown, subscribers, filters, event_history,
                             rate_counter, rate_window, window_over, queue, pc, cur_ev, cb_calls>>
              /\ ev_log'[Len(ev_log')].status = "norun"]_vars

\* two shutdown calls have returned, the second one after a new subscription;
\* an event published before them was delivered and one published after them
\* was ignored
C9_Witness ==
    /\ shutdowns = 2
    /\ pc["main"] = "idle"
    /\ subscribers = <<>>
    /\ sub_used = SubIds
    /\ \E e \in Events : ev_log[e].status = "norun"
    /\ \E e \in Events : Delivered("s2", e)

====
